---- MODULE Spec2Model ----
(***************************************************************************)
(* Audio diagnostics and signal-chain configuration subsystem of the       *)
(* browser media editor: the DSP pipeline (processAudioWithDSP), the audio *)
(* metrics (computeAudioMetrics, detectAbnormalities), the hardened WAV    *)
(* encoder (encodeWAV, decodeWAV), the Triple Check runner                 *)
(* (runTripleCheck), the automatic tuning (autoTuneDSP), the strength      *)
(* mappers of the stage builders and the editor component that drives      *)
(* them (handleAutoAnalyze, handleRunDiagnostics).                         *)
(*                                                                         *)
(* Numbers.  A finite sample is an integer n standing for n / Scale, where  *)
(* Scale = Unit * SubSteps: 1.0 is Scale, the 16-bit code v is the sample  *)
(* v * SubSteps when decoded as v / 32768, and SubSteps - 1 sample values  *)
(* lie between two adjacent codes.  NaN and the infinities are separate    *)
(* sample kinds.  A quotient computed by the code is kept as an exact      *)
(* fraction [num, den]; den = 0 is the NaN that 0/0 gives in the code.  A  *)
(* level computed as a square root is kept as the quotient it is the root  *)
(* of.  An intensity is a number of hundredths, a band adjustment a number *)
(* of hundredths of a dB (an intensity times a whole number of dB).        *)
(***************************************************************************)
EXTENDS Integers, Sequences, FiniteSets, TLC

\* ------------------------------------------------------------------ bounds
MaxFrames == 1
MaxCount == 2
\* the resolution of the samples: sample values per step of the 16-bit code
SubSteps == 4
\* object URLs the platform has handed out when the last diagnostics run of the
\* editor starts
MaxUrls == 5
\* AudioContexts left open when the last diagnostics run of the editor starts
MaxContexts == 1
\* object URLs the platform has handed out when the last operation of the
\* editor with every control starts
MaxControlUrls == 2
\* the media files the canister is given, the rounds it runs
MaxFiles == 2
MaxTime == 2

\* ------------------------------------------------------- program constants
Unit == 32768
StageIncrement == 12
\* the intensity of the auto mode is a number of hundredths (autoIntensity / 100)
IntensityScale == 100
\* the sample value 1.0
Scale == Unit * SubSteps

\* ------------------------------------------------------------------ samples
NaN == [kind |-> "nan", v |-> 0]
PosInf == [kind |-> "inf", v |-> 1]
NegInf == [kind |-> "inf", v |-> -1]
Fin(n) == [kind |-> "fin", v |-> n]

isNaN(sample) == sample.kind = "nan"
isFinite(sample) == sample.kind = "fin"

Abs(n) == IF n < 0 THEN -n ELSE n
Max(a, b) == IF a > b THEN a ELSE b
Min(a, b) == IF a < b THEN a ELSE b

\* Math.round(a / b) for b > 0: the nearest integer, halves towards +Infinity
RoundDiv(a, b) == (2 * a + b) \div (2 * b)

\* squares of samples exceed the checker's integers: a sum of squares is kept
\* exactly as hi * Unit^2 + lo with 0 <= lo < Unit^2
SquareOf(n) ==
  LET m == Abs(n)
      a == m \div Unit
      b == m % Unit
      e == (2 * a * b) \div Unit
      f == (2 * a * b) % Unit
      low == f * Unit + b * b
  IN [hi |-> a * a + e + low \div (Unit * Unit), lo |-> low % (Unit * Unit)]
BigAdd(x, y) ==
  LET low == x.lo + y.lo
  IN [hi |-> x.hi + y.hi + low \div (Unit * Unit), lo |-> low % (Unit * Unit)]

\* natural numbers beyond the checker's integers, for comparing levels
\* exactly: digit sequences in base Unit, least significant digit first
Digit(x, i) == IF i <= Len(x) THEN x[i] ELSE 0
RECURSIVE NatOfInt(_)
NatOfInt(n) == IF n = 0 THEN << >> ELSE <<n % Unit>> \o NatOfInt(n \div Unit)
NatOfBig(b) == <<b.lo % Unit, b.lo \div Unit>> \o NatOfInt(b.hi)
RECURSIVE NatAddFrom(_, _, _, _)
NatAddFrom(x, y, i, carry) ==
  IF i > Max(Len(x), Len(y)) THEN NatOfInt(carry)
  ELSE LET t == Digit(x, i) + Digit(y, i) + carry
       IN <<t % Unit>> \o NatAddFrom(x, y, i + 1, t \div Unit)
\* (the operands are bound to their values first, so that each is evaluated once)
NatAdd(x, y) == CHOOSE sum \in {NatAddFrom(p[1], p[2], 1, 0) : p \in {<<x, y>>}} : TRUE
RECURSIVE NatSubFrom(_, _, _, _)
NatSubFrom(x, y, i, borrow) ==
  IF i > Len(x) THEN << >>
  ELSE LET t == x[i] - Digit(y, i) - borrow
       IN <<t % Unit>> \o NatSubFrom(x, y, i + 1, IF t < 0 THEN 1 ELSE 0)
\* x - y for x >= y
NatSub(x, y) == CHOOSE rest \in {NatSubFrom(p[1], p[2], 1, 0) : p \in {<<x, y>>}} : TRUE
RECURSIVE NatMulDigitFrom(_, _, _, _)
NatMulDigitFrom(x, d, i, carry) ==
  IF i > Len(x) THEN NatOfInt(carry)
  ELSE LET t == x[i] * d + carry
       IN <<t % Unit>> \o NatMulDigitFrom(x, d, i + 1, t \div Unit)
RECURSIVE NatMulFrom(_, _, _)
NatMulFrom(x, y, j) ==
  IF j > Len(y) THEN << >>
  ELSE NatAdd(NatMulDigitFrom(x, y[j], 1, 0), <<0>> \o NatMulFrom(x, y, j + 1))
NatMul(x, y) == CHOOSE product \in {NatMulFrom(p[1], p[2], 1) : p \in {<<x, y>>}} : TRUE
NatLeq(x, y) ==
  \E p \in {<<x, y>>} :
    \E differ \in {{i \in 1..Max(Len(p[1]), Len(p[2])) : Digit(p[1], i) # Digit(p[2], i)}} :
      \/ differ = {}
      \/ LET k == CHOOSE i \in differ : \A j \in differ : j <= i
         IN Digit(p[1], k) < Digit(p[2], k)

\* exact fractions; den = 0 stands for NaN (0 / 0).  A fraction stands for the
\* double nearest to it, which is what one division of the code makes of it.
Rat(n, d) == [num |-> n, den |-> d]
\* fractions in lowest terms, so that sums and products stay within the
\* checker's integers
RECURSIVE Gcd(_, _)
Gcd(a, b) == IF b = 0 THEN a ELSE Gcd(b, a % b)
Reduced(n, d) == LET g == Gcd(Abs(n), d) IN Rat(n \div g, d \div g)
\* the fraction is a double exactly: a power of two is its denominator in
\* lowest terms
IsDouble(r) == r.den # 0 /\ \E e \in 0..30 : Reduced(r.num, r.den).den = 2^e
\* r > a / b, false when r is NaN
RatGt(r, a, b) == r.den # 0 /\ r.num * b > a * r.den
RatAbs(r) == Rat(Abs(r.num), r.den)

\* r < a / b, false when r is NaN
RatLt(r, a, b) == r.den # 0 /\ r.num * b < a * r.den
\* Math.min(hi, Math.max(lo, Math.round(e))) for an expression e of the
\* features xs whose exact value is r * c >= 0, as (x - 0.45) * 30 is of x.
\* The double the code computes for e is within 2^-40 of r * c, so that it is
\* rounded as r * c is unless r * c is k + 1/2 exactly.  There the code rounds
\* to k or to k + 1: both are clamped to lo when k + 1 <= lo and to hi when
\* k >= hi.  Between them the doubles decide: for features that are doubles
\* exactly the code's e is k + 1/2 or above, and is rounded to k + 1, except
\* for the features of `short`, for which it is below k + 1/2; for features
\* that are no doubles the result has no value here.
\* (r and xs are bound to their values first, so that each is evaluated once)
ClampedRound(r, c, lo, hi, xs, short) ==
  CHOOSE rounded \in
    {LET k == (p[1].num * c) \div p[1].den
         halfway == (2 * p[1].num * c) % (2 * p[1].den) = p[1].den
     IN CASE ~halfway -> Min(hi, Max(lo, RoundDiv(p[1].num * c, p[1].den)))
          [] halfway /\ (k + 1 <= lo \/ k >= hi) -> Min(hi, Max(lo, k))
          [] halfway /\ lo <= k /\ k < hi /\ (\A x \in p[2] : IsDouble(x)) ->
               IF \E x \in p[2] : Reduced(x.num, x.den) \in short THEN k ELSE k + 1 :
     p \in {<<r, xs>>}} : TRUE

\* a level that the code computes as Math.sqrt(sum / count) of squared
\* samples, kept as what it is the root of: the level is
\* sqrt(sumSquares / totalSamples) / Scale when kind is "fin", NaN when kind is
\* "nan" and Infinity when kind is "inf"
Level(kind, sumSquares, totalSamples) ==
  [kind |-> kind, sumSquares |-> sumSquares, totalSamples |-> totalSamples]
\* the level of the constant signal n / Scale
LevelOf(n) == Level("fin", SquareOf(n), 1)
NaNLevel == Level("nan", SquareOf(0), 1)
InfLevel == Level("inf", SquareOf(0), 1)
\* x > y for natural numbers x and y that are the squares of what the code
\* compares in doubles.  Where x is within y / 2^38 of y, the roundings of the
\* division, of Math.sqrt and of the product decide, and the comparison has
\* no value here.
ClearlyAbove(x, y) ==
  LET wide == NatMul(NatOfInt(2^19), NatOfInt(2^19))
  IN CASE ~NatLeq(NatMul(wide, x), NatAdd(NatMul(wide, y), y)) -> TRUE
       [] ~NatLeq(NatMul(wide, y), NatAdd(NatMul(wide, x), y)) -> FALSE
\* (level / 0.1) * 100 >= h / 2 as Math.round decides it for c = 1000, for a
\* level that is a number and h > 0:
\* 4 c^2 sumSquares > h^2 Scale^2 totalSamples
LevelTimesAtLeastHalves(level, c, h) ==
  ClearlyAbove(NatMul(NatOfInt(4 * c * c), NatOfBig(level.sumSquares)),
               NatMul(NatOfInt(h * h * level.totalSamples),
                      NatMul(NatOfInt(Scale), NatOfInt(Scale))))
\* level > a / b, false when the level is NaN or 0
LevelGt(level, a, b) ==
  \/ level.kind = "inf"
  \/ /\ level.kind = "fin"
     /\ level.sumSquares # SquareOf(0)
     /\ ClearlyAbove(NatMul(NatOfInt(b * b), NatOfBig(level.sumSquares)),
                     NatMul(NatOfInt(a * a * level.totalSamples),
                            NatMul(NatOfInt(Scale), NatOfInt(Scale))))
\* Math.min(hi, Math.max(lo, Math.round((level / 0.1) * 100))) for c = 1000
\* and a level that is not NaN: of a NaN level the code returns NaN, which no
\* strength here stands for
ClampedRoundLevel(level, c, lo, hi) ==
  CASE level.kind = "inf" -> hi
    [] level.kind = "fin" /\ level.sumSquares = SquareOf(0) -> lo
    [] level.kind = "fin" /\ level.sumSquares # SquareOf(0) ->
         lo + Cardinality({k \in (lo + 1)..hi : LevelTimesAtLeastHalves(level, c, 2 * k - 1)})

\* 20 * Math.log10(peak / rms), kept as the peak and the level it compares:
\* kind "zero" is the 0 of line 80, kind "nan" is 20 * log10(Infinity / Infinity)
Decibels(kind, peak, level) == [kind |-> kind, peak |-> peak, level |-> level]
ZeroDecibels == Decibels("zero", 0, LevelOf(0))
NaNDecibels == Decibels("nan", 0, LevelOf(0))
\* dB > 6, false for NaN: 20 * log10(peak / rms) > 6 is peak / rms > 10^(3/10),
\* that is (peak^2 / rms^2)^5 > 1000, which is compared as it stands, with
\* P = (totalSamples * peak^2)^5 and M = 1000 * sumSquares^5.  Where P is
\* within M / 2^38 of M, the roundings of Math.sqrt, of the division and of
\* Math.log10 decide, and the comparison has no value here.
DecibelsAboveSix(dB) ==
  /\ dB.kind = "ratio"
  /\ LET Fifth(x) == NatMul(x, NatMul(NatMul(x, x), NatMul(x, x)))
         wide == NatMul(NatOfInt(2^19), NatOfInt(2^19))
         P == Fifth(NatMul(NatOfInt(dB.level.totalSamples),
                           NatMul(NatOfInt(dB.peak), NatOfInt(dB.peak))))
         M == NatMul(NatOfInt(1000), Fifth(NatOfBig(dB.level.sumSquares)))
     IN CASE ~NatLeq(NatMul(wide, P), NatAdd(NatMul(wide, M), M)) -> TRUE
          [] ~NatLeq(NatMul(wide, M), NatAdd(NatMul(wide, P), M)) -> FALSE

\* the samples the platform decoder and the offline renderer can deliver
SampleValues == {NaN, PosInf, Fin(0), Fin(Scale \div 16), Fin(2 * Scale)}

\* an AudioBuffer: one sample sequence per channel, all of the same length
BuffersOfShape(c, n) == [1..c -> [1..n -> SampleValues]]
\* the buffers files decode to here are mono; the metrics and the encoder below
\* take any channel count
Buffers == UNION {BuffersOfShape(1, n) : n \in 1..MaxFrames}
numberOfChannels(buffer) == Len(buffer)
bufferLength(buffer) == Len(buffer[1])

\* ------------------------------------------------ audioMetrics.ts
\* the body of the sample loop of computeAudioMetrics
MetricsStep(acc, sample) ==
  LET counted == [acc EXCEPT !.totalSamples = @ + 1] IN
  IF isNaN(sample) THEN [counted EXCEPT !.nanCount = @ + 1]
  ELSE IF ~isFinite(sample) THEN [counted EXCEPT !.infinityCount = @ + 1]
  ELSE LET absSample == Abs(sample.v) IN
       [counted EXCEPT !.peakLevel = Max(@, absSample),
                       !.sumSquares = BigAdd(@, SquareOf(sample.v)),
                       !.dcSum = @ + sample.v,
                       \* absSample >= 0.99
                       !.clippingCount = IF absSample * 100 >= 99 * Scale THEN @ + 1 ELSE @]

RECURSIVE MetricsLoop(_, _, _)
MetricsLoop(channelData, i, acc) ==
  IF i > Len(channelData) THEN acc
  ELSE MetricsLoop(channelData, i + 1, MetricsStep(acc, channelData[i]))

RECURSIVE MetricsChannels(_, _, _)
MetricsChannels(buffer, ch, acc) ==
  IF ch > numberOfChannels(buffer) THEN acc
  ELSE MetricsChannels(buffer, ch + 1, MetricsLoop(buffer[ch], 1, acc))

\* rmsLevel is kept as the two numbers it is the root of the quotient of:
\* rmsLevel = sqrt(sumSquares / totalSamples) / Scale
computeAudioMetrics(buffer) ==
  LET acc == MetricsChannels(buffer, 1,
               [peakLevel |-> 0, sumSquares |-> [hi |-> 0, lo |-> 0], dcSum |-> 0, nanCount |-> 0,
                infinityCount |-> 0, clippingCount |-> 0, totalSamples |-> 0]) IN
  [channels |-> numberOfChannels(buffer),
   peakLevel |-> Rat(acc.peakLevel, Scale),
   rmsLevel |-> [sumSquares |-> acc.sumSquares, totalSamples |-> acc.totalSamples],
   dcOffset |-> Rat(acc.dcSum, acc.totalSamples * Scale),
   nanCount |-> acc.nanCount,
   infinityCount |-> acc.infinityCount,
   clippingCount |-> acc.clippingCount,
   clippingPercentage |-> Rat(acc.clippingCount * 100, acc.totalSamples)]

IssueNaN == "NaN samples detected"
IssueInfinity == "Infinity samples detected"
IssueClipping == "clipping detected (threshold: 5%)"
IssueDC == "High DC offset"
IssuePeak == "Peak level exceeds 1.0"

\* variant: the checks chained with else, so that only the first issue is listed
detectAbnormalitiesFirstOnly(metrics) ==
  LET issues == IF metrics.nanCount > 0 THEN <<"NaN samples detected">>
                ELSE IF metrics.infinityCount > 0 THEN <<"Infinity samples detected">>
                ELSE IF RatGt(metrics.clippingPercentage, 5, 1)
                THEN <<"clipping detected (threshold: 5%)">>
                ELSE IF RatGt(RatAbs(metrics.dcOffset), 1, 10) THEN <<"High DC offset">>
                ELSE IF RatGt(metrics.peakLevel, 1, 1) THEN <<"Peak level exceeds 1.0">>
                ELSE << >>
  IN [hasAbnormalities |-> Len(issues) > 0, issues |-> issues]

PushIf(cond, issues, issue) == IF cond THEN Append(issues, issue) ELSE issues

detectAbnormalities(metrics) ==
  LET i1 == PushIf(metrics.nanCount > 0, << >>, IssueNaN)
      i2 == PushIf(metrics.infinityCount > 0, i1, IssueInfinity)
      i3 == PushIf(RatGt(metrics.clippingPercentage, 5, 1), i2, IssueClipping)
      i4 == PushIf(RatGt(RatAbs(metrics.dcOffset), 1, 10), i3, IssueDC)
      i5 == PushIf(RatGt(metrics.peakLevel, 1, 1), i4, IssuePeak)
  IN [hasAbnormalities |-> Len(i5) > 0, issues |-> i5]

\* ------------------------------------------------ wavEncoder.ts
\* Math.round(sample * 0x8000) for the sample n / Scale: n * 32768 / Scale is
\* n / SubSteps
RoundTimes0x8000(n) == RoundDiv(n, SubSteps)
\* Math.round(sample * 0x7FFF) for the sample n / Scale: with
\* n = q * SubSteps + r, n * 32767 / Scale is q + (r * Unit - n) / Scale
\* variant: the product is truncated towards -Infinity instead of rounded
RoundTimes0x7FFFTruncated(n) ==
  (n \div SubSteps) + (((n % SubSteps) * Unit - n) \div Scale)

RoundTimes0x7FFF(n) ==
  (n \div SubSteps) + RoundDiv((n % SubSteps) * Unit - n, Scale)
\* variant: the range check looks at the sample as read, before it is sanitized
EncodeStepChecksRawSample(acc, sample0) ==
  LET bad == isNaN(sample0) \/ ~isFinite(sample0)
      s1 == IF bad THEN 0 ELSE sample0.v
      out == bad \/ s1 > Scale \/ s1 < -Scale
      s2 == IF out THEN Max(-Scale, Min(Scale, s1)) ELSE s1
      int16Value == IF s2 < 0 THEN RoundTimes0x8000(s2) ELSE RoundTimes0x7FFF(s2)
      clampedInt16 == Max(-32768, Min(32767, int16Value))
  IN [data |-> Append(acc.data, clampedInt16),
      sanitizedSamples |-> IF bad THEN acc.sanitizedSamples + 1 ELSE acc.sanitizedSamples,
      clippedSamples |-> IF out THEN acc.clippedSamples + 1 ELSE acc.clippedSamples,
      totalSamples |-> acc.totalSamples + 1]

\* the body of the sample loop of encodeWAV
EncodeStep(acc, sample0) ==
  LET bad == isNaN(sample0) \/ ~isFinite(sample0)
      s1 == IF bad THEN 0 ELSE sample0.v
      out == s1 > Scale \/ s1 < -Scale
      s2 == IF out THEN Max(-Scale, Min(Scale, s1)) ELSE s1
      int16Value == IF s2 < 0 THEN RoundTimes0x8000(s2) ELSE RoundTimes0x7FFF(s2)
      clampedInt16 == Max(-32768, Min(32767, int16Value))
  IN [data |-> Append(acc.data, clampedInt16),
      sanitizedSamples |-> IF bad THEN acc.sanitizedSamples + 1 ELSE acc.sanitizedSamples,
      clippedSamples |-> IF out THEN acc.clippedSamples + 1 ELSE acc.clippedSamples,
      totalSamples |-> acc.totalSamples + 1]

RECURSIVE EncodeChannels(_, _, _, _)
EncodeChannels(buffer, i, channel, acc) ==
  IF channel > numberOfChannels(buffer) THEN acc
  ELSE EncodeChannels(buffer, i, channel + 1, EncodeStep(acc, buffer[channel][i]))

RECURSIVE EncodeFrames(_, _, _)
EncodeFrames(buffer, i, acc) ==
  IF i > bufferLength(buffer) THEN acc
  ELSE EncodeFrames(buffer, i + 1, EncodeChannels(buffer, i, 1, acc))

\* variant: the range check is sample >= 1.0 || sample <= -1.0, so that a
\* sample on the boundary of [-1, 1] is counted as clipped
encodeWAVClipsAtBoundary(buffer) ==
  LET acc == EncodeFrames(buffer, 1,
               [data |-> << >>, sanitizedSamples |-> 0, clippedSamples |-> 0,
                totalSamples |-> 0])
      boundary == {pos \in (1..numberOfChannels(buffer)) \X (1..bufferLength(buffer)) :
                     /\ isFinite(buffer[pos[1]][pos[2]])
                     /\ Abs(buffer[pos[1]][pos[2]].v) = Scale}
  IN [blob |-> [numberOfChannels |-> numberOfChannels(buffer), data |-> acc.data],
      diagnostics |-> [sanitizedSamples |-> acc.sanitizedSamples,
                       clippedSamples |-> acc.clippedSamples + Cardinality(boundary),
                       totalSamples |-> acc.totalSamples]]

\* the blob is the header's channel count and the interleaved 16-bit data
encodeWAV(buffer) ==
  LET acc == EncodeFrames(buffer, 1,
               [data |-> << >>, sanitizedSamples |-> 0, clippedSamples |-> 0,
                totalSamples |-> 0]) IN
  [blob |-> [numberOfChannels |-> numberOfChannels(buffer), data |-> acc.data],
   diagnostics |-> [sanitizedSamples |-> acc.sanitizedSamples,
                    clippedSamples |-> acc.clippedSamples,
                    totalSamples |-> acc.totalSamples]]

\* what decodeAudioData makes of the 16-bit code v is the platform's: a code
\* v <= 0 becomes v / 32768; a positive code becomes v / 32768 on one engine
\* and the float nearest to v / 32767 on another (32767 becomes 1.0).  The
\* outcomes are the sample values from v / 32768 up to the first one that is
\* not below v / 32767: v * Scale / 32767 is v * SubSteps * (1 + 1 / 32767)
DecodedCodes(v) ==
  IF v <= 0 THEN {v * SubSteps}
  ELSE (v * SubSteps) .. (v * SubSteps + ((v * SubSteps + 32766) \div 32767))

\* a blob that is no audio: decodeAudioData rejects it
NotAudio == [numberOfChannels |-> 0, data |-> << >>]

\* the buffers decodeAudioData can resolve with for a blob of encodeWAV: the
\* data de-interleaved, each code decoded as the platform does.  Every buffer
\* here has the sample rate of the AudioContext, so the decoder does not
\* resample and the decoded buffer has the frames of the blob
decodeAudioData(blob) ==
  LET c == blob.numberOfChannels
      n == Len(blob.data) \div c
      values == UNION {DecodedCodes(blob.data[k]) : k \in 1..Len(blob.data)}
      decoded == {f \in [1..Len(blob.data) -> values] :
                    \A k \in 1..Len(blob.data) : f[k] \in DecodedCodes(blob.data[k])}
  IN {[ch \in 1..c |-> [i \in 1..n |-> Fin(f[(i - 1) * c + ch])]] : f \in decoded}


\* ------------------------------------------------ state
VARIABLES
  \* one invocation of processAudioWithDSP
  dspPc, dspCaller, dspOptions, dspInput, progressStep, currentNode, chains,
  destinationInput, sourceStarted, progressLog, renderState, dspCause, dspResult,
  \* detectAbnormalities applied to a metrics value
  metricsPc, metricsIn, abnormalitiesOut,
  \* one invocation of runTripleCheck
  tcPc, tcFile, tcSettings, checkpoints, decodedBuffer, inputWav, earlyWav, finalWav,
  finalDecodedBuffer, tcCause, tcResult,
  \* the platform: object URLs not yet revoked, AudioContexts not yet closed
  liveUrls, nextUrl, openContexts,
  \* encodeWAV applied to a buffer, and decodeWAV to its blob
  encPc, encInput, encResult, encBlob, encDecoded,
  \* strengthToThreshold called by a stage builder
  mapPc, mapModule, mapArgs, mapResult,
  \* one invocation of autoTuneDSP, with its call of analyzeAudioFile
  tunePc, tuneFile, tuneIntensity, tuneFeatures, tuneCause, tuneResult,
  \* one AdvancedAudioEditor component: its props and React state, and the
  \* positions of its asynchronous handlers
  lifecycle, originalFile, originalAudioUrl, autoIntensity, isAnalyzing, analysisComplete,
  settings, isRunningDiagnostics, diagnosticsReport, autoAnalyzePc, runDiagnosticsPc,
  \* the report handleRunDiagnostics received last
  report,
  \* the mode tab, and handleProcess with the URL of the processed audio, the
  \* settings and the file of the render it was created in
  mode, isProcessing, processPc, processedAudioUrl, processSettings, processFile,
  \* the feature extraction of analyzeAudioFile applied to a decoded buffer
  anPc, anBuffer, anFeatures,
  \* generateSuggestedSettings applied to a features value
  sugPc, sugFeatures, sugSuggestions,
  \* the backend canister: its stable maps, the time of the current message
  \* and the call it answered last
  processingJobs, userFiles, videoComparisonConfigs, now, beCall,
  \* the roles kept by the access control of the canister
  accessControlState

dspVars == <<dspPc, dspCaller, dspOptions, dspInput, progressStep, currentNode, chains,
             destinationInput, sourceStarted, progressLog, renderState, dspCause, dspResult>>
metricVars == <<metricsPc, metricsIn, abnormalitiesOut>>
tcVars == <<tcPc, tcFile, tcSettings, checkpoints, decodedBuffer, inputWav, earlyWav,
            finalWav, finalDecodedBuffer, tcCause, tcResult>>
platformVars == <<liveUrls, nextUrl, openContexts>>
encVars == <<encPc, encInput, encResult, encBlob, encDecoded>>
mapVars == <<mapPc, mapModule, mapArgs, mapResult>>
\* the state of the operations that neither the pipeline nor the diagnostics touch
tuneVars == <<tunePc, tuneFile, tuneIntensity, tuneFeatures, tuneCause, tuneResult>>
edVars == <<lifecycle, originalFile, originalAudioUrl, autoIntensity, isAnalyzing,
            analysisComplete, settings, isRunningDiagnostics, diagnosticsReport,
            autoAnalyzePc, runDiagnosticsPc, report, mode, isProcessing, processPc,
            processedAudioUrl, processSettings, processFile>>
edModeVars == <<mode, isProcessing, processPc, processedAudioUrl, processSettings, processFile>>
anVars == <<anPc, anBuffer, anFeatures>>
\* the state of the operations that are only called directly
beVars == <<processingJobs, userFiles, videoComparisonConfigs, now, beCall,
           accessControlState>>
sugVars == <<sugPc, sugFeatures, sugSuggestions>>
extVars == <<anVars, beVars, sugVars>>
restVars == <<encVars, mapVars, tuneVars, edVars, extVars>>
vars == <<dspVars, metricVars, tcVars, platformVars, restVars>>
\* what a step of processAudioWithDSP leaves alone
nonDspVars == <<metricVars, tcVars, platformVars, restVars>>

\* ------------------------------------------------ dspTypes.ts, audioProcessor.ts
StageNames == <<"noiseSuppression", "transientSuppression", "voiceIsolation",
                "spectralRepair", "dynamicEQ", "deClickDeChirp">>
StageConfig(e, s) == [enabled |-> e, strength |-> s]

\* dspTypes.ts lines 36-39: maxThreshold - (strength / 100) * (maxThreshold - minThreshold),
\* as a number of hundredths
strengthToThreshold(strength, minThreshold, maxThreshold) ==
  Rat(maxThreshold * 100 - strength * (maxThreshold - minThreshold), 100)

\* the second module of the sources that exports the strength mappers (the one
\* whose DSPProcessingOptions has the diagnosticsMode that processAudioWithDSP
\* reads), lines 27-30: minThreshold + (maxThreshold - minThreshold) * normalized
strengthToThresholdPart002(strength, minThreshold, maxThreshold) ==
  Rat(minThreshold * 100 + (maxThreshold - minThreshold) * strength, 100)

\* the modules './dspTypes' of the stage builders' import can resolve to
DspTypesModules == {"dspTypes", "part_002"}

\* the defaults of the destructuring at the head of processAudioWithDSP
DefaultOptions ==
  [noiseSuppression |-> StageConfig(TRUE, 80),
   transientSuppression |-> StageConfig(TRUE, 75),
   voiceIsolation |-> StageConfig(TRUE, 85),
   spectralRepair |-> StageConfig(TRUE, 70),
   dynamicEQ |-> StageConfig(FALSE, 50),
   deClickDeChirp |-> StageConfig(FALSE, 50),
   lowBandAdjustment |-> 0,
   midBandAdjustment |-> 0,
   highBandAdjustment |-> 0,
   diagnosticsMode |-> FALSE]

\* a field of the options, or its default when the caller left it out
Opt(options, key) == IF key \in DOMAIN options THEN options[key] ELSE DefaultOptions[key]

\* what the platform throws while nodes are built or the graph is rendered
Causes == {[isError |-> TRUE, message |-> "InvalidStateError"],
           [isError |-> TRUE, message |-> "NotSupportedError"]}

\* variant: the cause's message is dropped
ErrorMessageDropped(error) == "Unknown error"

\* error instanceof Error ? error.message : 'Unknown error'
ErrorMessage(error) == IF error.isError THEN error.message ELSE "Unknown error"

ProcessingError(error) ==
  [kind |-> "error", message |-> "Failed to process audio: " \o ErrorMessage(error)]

NoResult == [kind |-> "none"]
NoCause == [isError |-> FALSE, message |-> ""]

\* the buffers an offline render of the graph can deliver for an input
RenderOutputs(input) == BuffersOfShape(numberOfChannels(input), bufferLength(input))

\* onProgress(pct, label)
OnProgress(pct, label) == progressLog' = Append(progressLog, <<pct, label>>)

\* variant: the builder is handed the source node instead of the current node
BuildChainOnSource(builder, args, nextPc) ==
  \/ /\ chains' = Append(chains, [builder |-> builder, input |-> "source", args |-> args])
     /\ currentNode' = builder
     /\ dspPc' = nextPc
     /\ UNCHANGED dspCause
  \/ \E cause \in Causes :
       /\ dspCause' = cause
       /\ dspPc' = "catch"
       /\ UNCHANGED <<chains, currentNode>>

\* a chain builder called on the current node: it returns its terminal node,
\* or node construction throws
BuildChain(builder, args, nextPc) ==
  \/ /\ chains' = Append(chains, [builder |-> builder, input |-> currentNode, args |-> args])
     /\ currentNode' = builder
     /\ dspPc' = nextPc
     /\ UNCHANGED dspCause
  \/ \E cause \in Causes :
       /\ dspCause' = cause
       /\ dspPc' = "catch"
       /\ UNCHANGED <<chains, currentNode>>

\* processAudioWithDSP(audioBuffer, options) is entered
EnterDSP(caller, audioBuffer, options) ==
  /\ dspPc' = "init"
  /\ dspCaller' = caller
  /\ dspOptions' = options
  /\ dspInput' = audioBuffer
  /\ progressStep' = 0
  /\ currentNode' = "none"
  /\ chains' = << >>
  /\ destinationInput' = "none"
  /\ sourceStarted' = FALSE
  /\ progressLog' = << >>
  /\ renderState' = "notStarted"
  /\ dspCause' = NoCause
  /\ dspResult' = NoResult

\* lines 54-71: first progress report, offline context, source node
DspInit ==
  /\ dspPc = "init"
  /\ OnProgress(5, "Initializing DSP pipeline...")
  /\ \/ /\ currentNode' = "source"
        /\ progressStep' = 10
        /\ dspPc' = "preNormalize"
        /\ UNCHANGED dspCause
     \/ \E cause \in Causes :
          /\ dspCause' = cause
          /\ dspPc' = "catch"
          /\ UNCHANGED <<currentNode, progressStep>>
  /\ UNCHANGED <<dspCaller, dspOptions, dspInput, chains, destinationInput, sourceStarted,
                 renderState, dspResult, nonDspVars>>

\* lines 73-76
DspPreNormalize ==
  /\ dspPc = "preNormalize"
  /\ OnProgress(progressStep, "Applying input normalization...")
  /\ BuildChain("buildPreNormalization", << >>, "noiseSuppression")
  /\ progressStep' = IF dspPc' = "catch" THEN progressStep ELSE progressStep + StageIncrement
  /\ UNCHANGED <<dspCaller, dspOptions, dspInput, destinationInput, sourceStarted,
                 renderState, dspResult, nonDspVars>>

\* variant: diagnostics mode skips the six stages but still runs the tone control
DspSkipStagesKeepTone ==
  /\ dspPc = "noiseSuppression"
  /\ Opt(dspOptions, "diagnosticsMode")
  /\ dspPc' = "tone"
  /\ UNCHANGED <<dspCaller, dspOptions, dspInput, progressStep, currentNode, chains,
                 destinationInput, sourceStarted, progressLog, renderState, dspCause,
                 dspResult, nonDspVars>>

\* line 79 with diagnosticsMode set: every stage up to the tone control is skipped
DspSkipStages ==
  /\ dspPc = "noiseSuppression"
  /\ Opt(dspOptions, "diagnosticsMode")
  /\ dspPc' = "finalNormalize"
  /\ UNCHANGED <<dspCaller, dspOptions, dspInput, progressStep, currentNode, chains,
                 destinationInput, sourceStarted, progressLog, renderState, dspCause,
                 dspResult, nonDspVars>>

\* variant: the strength is not looked at
StageRunsWhenEnabled(config) == config.enabled

StageRuns(config) == config.enabled /\ config.strength > 0

\* one optional stage: the guarded builder call, then progressStep += stageIncrement
OptionalStage(pc, key, label, builder, nextPc) ==
  /\ dspPc = pc
  /\ (pc = "noiseSuppression" => ~Opt(dspOptions, "diagnosticsMode"))
  /\ LET config == Opt(dspOptions, key) IN
     IF StageRuns(config)
     THEN /\ OnProgress(progressStep, label)
          /\ BuildChain(builder, <<config.strength>>, nextPc)
     ELSE /\ dspPc' = nextPc
          /\ UNCHANGED <<progressLog, chains, currentNode, dspCause>>
  /\ progressStep' = IF dspPc' = "catch" THEN progressStep ELSE progressStep + StageIncrement
  /\ UNCHANGED <<dspCaller, dspOptions, dspInput, destinationInput, sourceStarted,
                 renderState, dspResult, nonDspVars>>

\* lines 80-85
DspNoiseSuppression ==
  OptionalStage("noiseSuppression", "noiseSuppression", "Suppressing background noise...",
                "buildNoiseSuppressionChain", "transientSuppression")
\* lines 87-92
DspTransientSuppression ==
  OptionalStage("transientSuppression", "transientSuppression", "Reducing transient sounds...",
                "buildTransientSuppressionChain", "voiceIsolation")
\* lines 94-99
DspVoiceIsolation ==
  OptionalStage("voiceIsolation", "voiceIsolation", "Isolating voice frequencies...",
                "buildVoiceIsolationChain", "spectralRepair")
\* lines 101-106
DspSpectralRepair ==
  OptionalStage("spectralRepair", "spectralRepair", "Repairing spectral distortion...",
                "buildSpectralRepairChain", "dynamicEQ")
\* lines 108-113
DspDynamicEQ ==
  OptionalStage("dynamicEQ", "dynamicEQ", "Applying dynamic equalization...",
                "buildDynamicEQChain", "deClickDeChirp")
\* lines 115-120
DspDeClickDeChirp ==
  OptionalStage("deClickDeChirp", "deClickDeChirp", "Removing clicks and chirps...",
                "buildDeClickDeChirpChain", "tone")

ToneRuns(options) ==
  \/ Opt(options, "lowBandAdjustment") # 0
  \/ Opt(options, "midBandAdjustment") # 0
  \/ Opt(options, "highBandAdjustment") # 0

\* lines 122-131
DspToneControl ==
  /\ dspPc = "tone"
  /\ IF ToneRuns(dspOptions)
     THEN /\ OnProgress(progressStep, "Applying tone profiling...")
          /\ BuildChain("build3BandEQ",
                        <<Opt(dspOptions, "lowBandAdjustment"),
                          Opt(dspOptions, "midBandAdjustment"),
                          Opt(dspOptions, "highBandAdjustment")>>, "finalNormalize")
     ELSE /\ dspPc' = "finalNormalize"
          /\ UNCHANGED <<progressLog, chains, currentNode, dspCause>>
  /\ progressStep' = IF dspPc' = "catch" THEN progressStep ELSE progressStep + StageIncrement
  /\ UNCHANGED <<dspCaller, dspOptions, dspInput, destinationInput, sourceStarted,
                 renderState, dspResult, nonDspVars>>

\* lines 134-136
DspFinalNormalize ==
  /\ dspPc = "finalNormalize"
  /\ OnProgress(90, "Applying output normalization...")
  /\ BuildChain("buildFinalNormalization", << >>, "connect")
  /\ UNCHANGED <<dspCaller, dspOptions, dspInput, progressStep, destinationInput,
                 sourceStarted, renderState, dspResult, nonDspVars>>

\* variant: completion is reported before the render is awaited
DspStartRenderingReportsDone ==
  /\ dspPc = "connect"
  /\ \/ /\ destinationInput' = currentNode
        /\ sourceStarted' = TRUE
        /\ OnProgress(100, "Processing complete")
        /\ renderState' = "rendering"
        /\ dspPc' = "rendering"
        /\ UNCHANGED dspCause
     \/ \E cause \in Causes :
          /\ dspCause' = cause
          /\ dspPc' = "catch"
          /\ UNCHANGED <<destinationInput, sourceStarted, progressLog, renderState>>
  /\ UNCHANGED <<dspCaller, dspOptions, dspInput, progressStep, currentNode, chains,
                 dspResult, nonDspVars>>

\* lines 138-143: connect to the destination, start the source, start rendering
DspStartRendering ==
  /\ dspPc = "connect"
  /\ \/ /\ destinationInput' = currentNode
        /\ sourceStarted' = TRUE
        /\ OnProgress(95, "Rendering audio...")
        /\ renderState' = "rendering"
        /\ dspPc' = "rendering"
        /\ UNCHANGED dspCause
     \/ \E cause \in Causes :
          /\ dspCause' = cause
          /\ dspPc' = "catch"
          /\ UNCHANGED <<destinationInput, sourceStarted, progressLog, renderState>>
  /\ UNCHANGED <<dspCaller, dspOptions, dspInput, progressStep, currentNode, chains,
                 dspResult, nonDspVars>>

\* lines 143-146: startRendering resolves, the last progress report, the return
DspRenderResolves ==
  /\ dspPc = "rendering"
  /\ \E processedBuffer \in RenderOutputs(dspInput) :
       dspResult' = [kind |-> "buffer", buffer |-> processedBuffer]
  /\ renderState' = "resolved"
  /\ OnProgress(100, "Processing complete")
  /\ dspPc' = "returned"
  /\ UNCHANGED <<dspCaller, dspOptions, dspInput, progressStep, currentNode, chains,
                 destinationInput, sourceStarted, dspCause, nonDspVars>>

\* line 143: startRendering rejects
DspRenderRejects ==
  /\ dspPc = "rendering"
  /\ \E cause \in Causes : dspCause' = cause
  /\ renderState' = "rejected"
  /\ dspPc' = "catch"
  /\ UNCHANGED <<dspCaller, dspOptions, dspInput, progressStep, currentNode, chains,
                 destinationInput, sourceStarted, progressLog, dspResult, nonDspVars>>

\* lines 147-150: the catch block rethrows
DspCatch ==
  /\ dspPc = "catch"
  /\ dspResult' = ProcessingError(dspCause)
  /\ dspPc' = "thrown"
  /\ UNCHANGED <<dspCaller, dspOptions, dspInput, progressStep, currentNode, chains,
                 destinationInput, sourceStarted, progressLog, renderState, dspCause,
                 nonDspVars>>

DspStep ==
  \/ DspInit \/ DspPreNormalize \/ DspSkipStages
  \/ DspNoiseSuppression \/ DspTransientSuppression \/ DspVoiceIsolation
  \/ DspSpectralRepair \/ DspDynamicEQ \/ DspDeClickDeChirp
  \/ DspToneControl \/ DspFinalNormalize \/ DspStartRendering
  \/ DspRenderResolves \/ DspRenderRejects \/ DspCatch

DspIdle ==
  /\ dspPc = "idle"
  /\ dspCaller = "none"
  /\ dspOptions = DefaultOptions
  /\ dspInput = << >>
  /\ progressStep = 0
  /\ currentNode = "none"
  /\ chains = << >>
  /\ destinationInput = "none"
  /\ sourceStarted = FALSE
  /\ progressLog = << >>
  /\ renderState = "notStarted"
  /\ dspCause = NoCause
  /\ dspResult = NoResult

NoAbnormalities == [hasAbnormalities |-> FALSE, issues |-> << >>]

MetricsIdle ==
  /\ metricsPc = "idle"
  /\ metricsIn = computeAudioMetrics(<< <<Fin(0)>> >>)
  /\ abnormalitiesOut = NoAbnormalities

\* ------------------------------------------------ detectAbnormalities called directly
ClippingPercentages == {Rat(0, 1), Rat(5, 1), Rat(501, 100), Rat(100, 1), Rat(0, 0)}
DcOffsets == {Rat(0, 1), Rat(1, 10), Rat(-1, 10), Rat(11, 100), Rat(-1, 2), Rat(0, 0)}
PeakLevels == {Rat(0, 1), Rat(1, 1), Rat(Unit + 1, Unit), Rat(2, 1)}

MetricsInputs ==
  [channels : {1},
   peakLevel : PeakLevels,
   rmsLevel : {[sumSquares |-> [hi |-> 0, lo |-> 0], totalSamples |-> 1]},
   dcOffset : DcOffsets,
   nanCount : 0..MaxCount,
   infinityCount : 0..MaxCount,
   clippingCount : {0},
   clippingPercentage : ClippingPercentages]

CallDetectAbnormalities ==
  /\ metricsPc = "input"
  /\ abnormalitiesOut' = detectAbnormalities(metricsIn)
  /\ metricsPc' = "done"
  /\ UNCHANGED <<metricsIn, dspVars, tcVars, platformVars, restVars>>


\* ------------------------------------------------ tripleCheckDiagnostics.ts
\* the options of the early-pipeline call, lines 67-78
EarlyOptions ==
  [noiseSuppression |-> StageConfig(FALSE, 0),
   transientSuppression |-> StageConfig(FALSE, 0),
   voiceIsolation |-> StageConfig(FALSE, 0),
   spectralRepair |-> StageConfig(FALSE, 0),
   dynamicEQ |-> StageConfig(FALSE, 0),
   deClickDeChirp |-> StageConfig(FALSE, 0),
   lowBandAdjustment |-> 0,
   midBandAdjustment |-> 0,
   highBandAdjustment |-> 0,
   diagnosticsMode |-> TRUE]

\* variant: the last checkpoint with abnormalities wins
RECURSIVE SourceStageFromLast(_, _)
SourceStageFromLast(cps, i) ==
  IF i > Len(cps) THEN "none"
  ELSE LET later == SourceStageFromLast(cps, i + 1) IN
       IF later # "none" THEN later
       ELSE IF cps[i].abnormalities.hasAbnormalities THEN cps[i].stage
       ELSE "none"

RECURSIVE SourceStageFrom(_, _)
SourceStageFrom(cps, i) ==
  IF i > Len(cps) THEN "none"
  ELSE IF cps[i].abnormalities.hasAbnormalities THEN cps[i].stage
  ELSE SourceStageFrom(cps, i + 1)

determineSourceStage(cps) == SourceStageFrom(cps, 1)

\* the summary is its template and the issues it joins into it
generateSummary(cps, sourceStage) ==
  IF sourceStage = "none"
  THEN <<"No abnormalities detected in any checkpoint. Audio processing is clean.", << >> >>
  ELSE IF ~\E i \in 1..Len(cps) : cps[i].stage = sourceStage
  THEN <<"Unable to determine source of abnormalities.", << >> >>
  ELSE LET first == CHOOSE i \in 1..Len(cps) :
                      /\ cps[i].stage = sourceStage
                      /\ \A j \in 1..(i - 1) : cps[j].stage # sourceStage
           issues == cps[first].abnormalities.issues
       IN IF sourceStage = "input"
          THEN <<"Abnormalities detected in the decoded input", issues>>
          ELSE IF sourceStage = "early-pipeline"
          THEN <<"Abnormalities first appear in the early pipeline", issues>>
          ELSE IF sourceStage = "final-output"
          THEN <<"Abnormalities first appear in the final processed output", issues>>
          ELSE <<"Diagnostic analysis complete.", << >> >>

DiagnosticsError(error) ==
  [kind |-> "error", message |-> "Triple Check diagnostics failed: " \o ErrorMessage(error)]

NoWav == [blob |-> [numberOfChannels |-> 0, data |-> << >>],
          diagnostics |-> [sanitizedSamples |-> 0, clippedSamples |-> 0, totalSamples |-> 0]]
NoFile == [decodable |-> FALSE, audio |-> << >>]

DecodeFailure == [isError |-> TRUE, message |-> "Unable to decode audio data"]
EncodeFailure == [isError |-> TRUE, message |-> "Array buffer allocation failed"]

\* what a step of runTripleCheck that does not touch the pipeline leaves alone
tcOnlyUnchanged == <<dspVars, metricVars, restVars>>

\* runTripleCheck(file, settings) is entered: line 43, up to the first await
EnterTripleCheck(file, processingSettings) ==
  /\ tcPc' = "readFile"
  /\ tcFile' = file
  /\ tcSettings' = processingSettings
  /\ checkpoints' = << >>
  /\ decodedBuffer' = << >>
  /\ inputWav' = NoWav
  /\ earlyWav' = NoWav
  /\ finalWav' = NoWav
  /\ finalDecodedBuffer' = << >>
  /\ tcCause' = NoCause
  /\ tcResult' = NoResult

\* lines 47-49: the file is read, the AudioContext is opened, decoding starts
TcReadFile ==
  /\ tcPc = "readFile"
  /\ openContexts' = openContexts + 1
  /\ tcPc' = "decoding"
  /\ UNCHANGED <<tcFile, tcSettings, checkpoints, decodedBuffer, inputWav, earlyWav,
                 finalWav, finalDecodedBuffer, tcCause, tcResult, liveUrls, nextUrl,
                 tcOnlyUnchanged>>

\* lines 49-78: the input checkpoint, then the early-pipeline call
TcDecodeResolves ==
  /\ tcPc = "decoding"
  /\ tcFile.decodable
  /\ decodedBuffer' = tcFile.audio
  /\ \/ LET inputMetrics == computeAudioMetrics(decodedBuffer')
            inputAbnormalities == detectAbnormalities(inputMetrics)
        IN /\ inputWav' = encodeWAV(decodedBuffer')
           /\ liveUrls' = liveUrls \cup {nextUrl}
           /\ nextUrl' = nextUrl + 1
           /\ checkpoints' = Append(checkpoints,
                [name |-> "Decoded Input", stage |-> "input", metrics |-> inputMetrics,
                 abnormalities |-> inputAbnormalities, audioUrl |-> nextUrl])
           /\ EnterDSP("tcEarly", decodedBuffer', EarlyOptions)
           /\ tcPc' = "earlyPipeline"
           /\ UNCHANGED tcCause
     \/ /\ tcCause' = EncodeFailure
        /\ tcPc' = "catch"
        /\ UNCHANGED <<inputWav, liveUrls, nextUrl, checkpoints, dspVars>>
  /\ UNCHANGED <<tcFile, tcSettings, earlyWav, finalWav, finalDecodedBuffer, tcResult,
                 openContexts, metricVars,
                 restVars>>

\* line 49: decodeAudioData rejects
TcDecodeRejects ==
  /\ tcPc = "decoding"
  /\ ~tcFile.decodable
  /\ tcCause' = DecodeFailure
  /\ tcPc' = "catch"
  /\ UNCHANGED <<tcFile, tcSettings, checkpoints, decodedBuffer, inputWav, earlyWav,
                 finalWav, finalDecodedBuffer, tcResult, platformVars, tcOnlyUnchanged>>

\* lines 67-95: the early-pipeline checkpoint, then the full-pipeline call
TcEarlyReturns ==
  /\ tcPc = "earlyPipeline"
  /\ dspPc = "returned"
  /\ \/ LET earlyPipelineBuffer == dspResult.buffer
            earlyMetrics == computeAudioMetrics(earlyPipelineBuffer)
            earlyAbnormalities == detectAbnormalities(earlyMetrics)
        IN /\ earlyWav' = encodeWAV(earlyPipelineBuffer)
           /\ liveUrls' = liveUrls \cup {nextUrl}
           /\ nextUrl' = nextUrl + 1
           /\ checkpoints' = Append(checkpoints,
                [name |-> "Early Pipeline (Pre-norm + Final-norm only)",
                 stage |-> "early-pipeline", metrics |-> earlyMetrics,
                 abnormalities |-> earlyAbnormalities, audioUrl |-> nextUrl])
           /\ EnterDSP("tcFinal", decodedBuffer, tcSettings)
           /\ tcPc' = "finalPipeline"
           /\ UNCHANGED tcCause
     \/ /\ tcCause' = EncodeFailure
        /\ tcPc' = "catch"
        /\ UNCHANGED <<earlyWav, liveUrls, nextUrl, checkpoints, dspVars>>
  /\ UNCHANGED <<tcFile, tcSettings, decodedBuffer, inputWav, finalWav,
                 finalDecodedBuffer, tcResult,
                 openContexts, metricVars, restVars>>

\* lines 67 and 95: processAudioWithDSP rejects
TcPipelineThrows ==
  /\ tcPc \in {"earlyPipeline", "finalPipeline"}
  /\ dspPc = "thrown"
  /\ tcCause' = [isError |-> TRUE, message |-> dspResult.message]
  /\ tcPc' = "catch"
  /\ UNCHANGED <<tcFile, tcSettings, checkpoints, decodedBuffer, inputWav, earlyWav,
                 finalWav, finalDecodedBuffer, tcResult, platformVars, tcOnlyUnchanged>>

\* lines 95-99 and wavEncoder.ts line 95: the full-pipeline buffer is encoded
\* and decodeWAV is called, which waits for the bytes of the blob
TcFinalReturns ==
  /\ tcPc = "finalPipeline"
  /\ dspPc = "returned"
  /\ \/ /\ finalWav' = encodeWAV(dspResult.buffer)
        /\ tcPc' = "finalEncoded"
        /\ UNCHANGED tcCause
     \/ /\ tcCause' = EncodeFailure
        /\ tcPc' = "catch"
        /\ UNCHANGED finalWav
  /\ UNCHANGED <<tcFile, tcSettings, checkpoints, decodedBuffer, inputWav, earlyWav,
                 finalDecodedBuffer, tcResult, platformVars, tcOnlyUnchanged>>

\* wavEncoder.ts lines 95-97: the bytes are there; decodeWAV opens its own
\* AudioContext and starts decoding
TcRoundTripOpens ==
  /\ tcPc = "finalEncoded"
  /\ openContexts' = openContexts + 1
  /\ tcPc' = "roundTrip"
  /\ UNCHANGED <<tcFile, tcSettings, checkpoints, decodedBuffer, inputWav, earlyWav,
                 finalWav, finalDecodedBuffer, tcCause, tcResult, liveUrls, nextUrl,
                 tcOnlyUnchanged>>

\* wavEncoder.ts lines 97-98: the round-trip decode resolves and decodeWAV
\* closes its context
TcRoundTripDecodes ==
  /\ tcPc = "roundTrip"
  /\ finalDecodedBuffer' \in decodeAudioData(finalWav.blob)
  /\ openContexts' = openContexts - 1
  /\ tcPc' = "roundTripClosing"
  /\ UNCHANGED <<tcFile, tcSettings, checkpoints, decodedBuffer, inputWav, earlyWav,
                 finalWav, tcCause, tcResult, liveUrls, nextUrl, tcOnlyUnchanged>>

\* variant: the final checkpoint is taken on the buffer the pipeline returned
TcRoundTripResolvesOnPipelineOutput ==
  /\ tcPc = "roundTripClosing"
  /\ LET finalMetrics == computeAudioMetrics(dspResult.buffer)
         finalAbnormalities == detectAbnormalities(finalMetrics)
     IN checkpoints' = Append(checkpoints,
          [name |-> "Final Processed Output (Full DSP + Encode/Decode)",
           stage |-> "final-output", metrics |-> finalMetrics,
           abnormalities |-> finalAbnormalities, audioUrl |-> nextUrl])
  /\ liveUrls' = liveUrls \cup {nextUrl}
  /\ nextUrl' = nextUrl + 1
  /\ openContexts' = openContexts - 1
  /\ tcPc' = "closing"
  /\ UNCHANGED <<tcFile, tcSettings, decodedBuffer, inputWav, earlyWav, finalWav,
                 finalDecodedBuffer, tcCause, tcResult, tcOnlyUnchanged>>

\* wavEncoder.ts line 99 and lines 99-114 here: decodeWAV returns the decoded
\* buffer; the final checkpoint is taken on it, with a URL of the encoded
\* blob; the run's own AudioContext is closed
TcRoundTripResolves ==
  /\ tcPc = "roundTripClosing"
  /\ LET finalMetrics == computeAudioMetrics(finalDecodedBuffer)
         finalAbnormalities == detectAbnormalities(finalMetrics)
     IN checkpoints' = Append(checkpoints,
          [name |-> "Final Processed Output (Full DSP + Encode/Decode)",
           stage |-> "final-output", metrics |-> finalMetrics,
           abnormalities |-> finalAbnormalities, audioUrl |-> nextUrl])
  /\ liveUrls' = liveUrls \cup {nextUrl}
  /\ nextUrl' = nextUrl + 1
  /\ openContexts' = openContexts - 1
  /\ tcPc' = "closing"
  /\ UNCHANGED <<tcFile, tcSettings, decodedBuffer, inputWav, earlyWav, finalWav,
                 finalDecodedBuffer, tcCause, tcResult, tcOnlyUnchanged>>

\* wavEncoder.ts line 97: the round-trip decodeAudioData rejects; line 98 is
\* skipped and the context of decodeWAV stays open
TcRoundTripRejects ==
  /\ tcPc = "roundTrip"
  /\ tcCause' = DecodeFailure
  /\ tcPc' = "catch"
  /\ UNCHANGED <<tcFile, tcSettings, checkpoints, decodedBuffer, inputWav, earlyWav,
                 finalWav, finalDecodedBuffer, tcResult, platformVars, tcOnlyUnchanged>>

\* lines 114-126: the run's context has closed; the report
TcReport ==
  /\ tcPc = "closing"
  /\ LET sourceStage == determineSourceStage(checkpoints) IN
     tcResult' = [kind |-> "report",
                  checkpoints |-> checkpoints,
                  sourceStage |-> sourceStage,
                  summary |-> generateSummary(checkpoints, sourceStage),
                  processingSettings |-> tcSettings]
  /\ tcPc' = "returned"
  /\ UNCHANGED <<tcFile, tcSettings, checkpoints, decodedBuffer, inputWav, earlyWav,
                 finalWav, finalDecodedBuffer, tcCause, platformVars, tcOnlyUnchanged>>

\* variant: the catch block returns what was collected so far
TcCatchPartialReport ==
  /\ tcPc = "catch"
  /\ tcResult' = [kind |-> "report",
                  checkpoints |-> checkpoints,
                  sourceStage |-> determineSourceStage(checkpoints),
                  summary |-> generateSummary(checkpoints, determineSourceStage(checkpoints)),
                  processingSettings |-> tcSettings]
  /\ tcPc' = "returned"
  /\ UNCHANGED <<tcFile, tcSettings, checkpoints, decodedBuffer, inputWav, earlyWav,
                 finalWav, finalDecodedBuffer, tcCause, platformVars, tcOnlyUnchanged>>

\* lines 127-130: the catch block rethrows
TcCatch ==
  /\ tcPc = "catch"
  /\ tcResult' = DiagnosticsError(tcCause)
  /\ tcPc' = "thrown"
  /\ UNCHANGED <<tcFile, tcSettings, checkpoints, decodedBuffer, inputWav, earlyWav,
                 finalWav, finalDecodedBuffer, tcCause, platformVars, tcOnlyUnchanged>>

TcStep ==
  \/ TcReadFile \/ TcDecodeResolves \/ TcDecodeRejects \/ TcEarlyReturns
  \/ TcPipelineThrows \/ TcFinalReturns \/ TcRoundTripOpens \/ TcRoundTripDecodes
  \/ TcRoundTripResolves \/ TcRoundTripRejects
  \/ TcReport \/ TcCatch

TcIdle ==
  /\ tcPc = "idle"
  /\ tcFile = NoFile
  /\ tcSettings = << >>
  /\ checkpoints = << >>
  /\ decodedBuffer = << >>
  /\ inputWav = NoWav
  /\ earlyWav = NoWav
  /\ finalWav = NoWav
  /\ finalDecodedBuffer = << >>
  /\ tcCause = NoCause
  /\ tcResult = NoResult

\* ------------------------------------------------ autoAudioAssessment.ts, the extraction
RatAdd(a, b) ==
  LET common == (a.den \div Gcd(a.den, b.den)) * b.den
  IN Reduced(a.num * (common \div a.den) + b.num * (common \div b.den), common)
RatTimes(a, b) == Reduced(a.num * b.num, a.den * b.den)

\* the sum of f[lo..hi]
RECURSIVE SumOver(_, _, _)
SumOver(f, lo, hi) ==
  IF lo > hi THEN 0
  ELSE IF lo = hi THEN f[lo]
  ELSE SumOver(f, lo, (lo + hi) \div 2) + SumOver(f, (lo + hi) \div 2 + 1, hi)

\* Math.max over a set of magnitudes, starting from 0
MaxOf(S) == IF S = {} THEN 0 ELSE CHOOSE m \in S : \A x \in S : x <= m

\* line 103
fftSize == 2048

\* a magnitude Math.sqrt(real * real + imag * imag) / N, kept as the sum under
\* the root and N; kind "nan" is a magnitude of NaN and kind "inf" one of
\* Infinity
Magnitude(kind, real, imag, N) ==
  [kind |-> kind, sumSquares |-> real * real + imag * imag, over |-> N]

\* 0, 1, 2, 4, 8, ...
IsZeroOrPowerOfTwo(m) == m = 0 \/ \E e \in 0..30 : m = 2^e

\* computeMagnitudeSpectrum, lines 218-236: bin k of the discrete Fourier
\* transform, for k < N / 2.
\*  - A window of numbers has a value here when its first sample is 0 or a
\*    power of two up to 2^6 / Scale, beyond which the sums of lines 112-160
\*    leave the checker's integers, and its other samples are 0.  The first sample has the
\*    angle 0 in every bin, where Math.cos is 1 and Math.sin is 0, and a sample
\*    of 0 adds 0 to real and to imag whatever Math.cos and Math.sin return:
\*    real is samples[0] and imag is 0 in every bin, and the sums of lines
\*    112-160 over these magnitudes are exact in doubles.  The spectrum of any
\*    other window of numbers depends on the doubles Math.cos and Math.sin
\*    return and has no value here.
\*  - A NaN sample makes real and imag NaN in every bin.  An infinite first
\*    sample is multiplied by Math.sin(0) = 0 in every bin, which is NaN.
\*  - An infinite sample after the first is multiplied by Math.sin(0) = 0 in
\*    bin 0 and by doubles other than 0 in the other bins: with one such sample
\*    among numbers, bin 0 is NaN and the other bins are Infinity.  With two
\*    or more the signs of Math.cos and Math.sin decide between Infinity and
\*    NaN, and the spectrum has no value here.
computeMagnitudeSpectrum(samples) ==
  LET N == Len(samples)
      bins == 0..((N + 1) \div 2 - 1)
      nonFinite == {n \in 1..N : ~isFinite(samples[n])}
  IN CASE /\ nonFinite = {}
          /\ IsZeroOrPowerOfTwo(Abs(samples[1].v)) /\ Abs(samples[1].v) <= 2^6
          /\ \A n \in 2..N : samples[n].v = 0 ->
            [i \in 1..Cardinality(bins) |-> Magnitude("fin", samples[1].v, 0, N)]
       [] (\E n \in nonFinite : isNaN(samples[n])) \/ 1 \in nonFinite ->
            [i \in 1..Cardinality(bins) |-> Magnitude("nan", 0, 0, N)]
       [] /\ Cardinality(nonFinite) = 1 /\ 1 \notin nonFinite
          /\ \A n \in nonFinite : samples[n].kind = "inf" ->
            [i \in 1..Cardinality(bins) |->
               IF i = 1 THEN Magnitude("nan", 0, 0, N) ELSE Magnitude("inf", 0, 0, N)]

\* lines 152-159: the first bin at which the cumulative energy reaches 85% of
\* the total, 0 when none does.  The energies are not negative, so the bins
\* that reach it are the ones from the first on: it is searched by halving
\* lo..hi, below which no bin reaches it.
RECURSIVE RolloffBin(_, _, _, _)
RolloffBin(energy, lo, hi, totalEnergy) ==
  LET mid == (lo + hi) \div 2
      reached(i) == SumOver(energy, 1, i) * 100 >= 85 * totalEnergy
  IN IF lo > hi THEN 0
     ELSE IF lo = hi THEN (IF reached(lo) THEN lo - 1 ELSE 0)
     ELSE IF reached(mid) THEN RolloffBin(energy, lo, mid, totalEnergy)
     ELSE RolloffBin(energy, mid + 1, hi, totalEnergy)

\* a + b for sums of energies, which are not negative: numbers of v units,
\* Infinity or NaN
EnergyAdd(a, b) ==
  IF isNaN(a) \/ isNaN(b) THEN NaN
  ELSE IF ~isFinite(a) \/ ~isFinite(b) THEN PosInf
  ELSE Fin(a.v + b.v)

\* lines 118-160: the spectrum of one analysis window added to the running
\* sums; bin i - 1 has
\* the frequency (i - 1) * sampleRate / fftSize, and its energy
\* magnitude * magnitude is counted in units of 1 / fftSize^2, the same for
\* every bin of every window.  A total energy of NaN is neither > 0 (line
\* 147) nor reached by the cumulative energy (line 155): such a window adds
\* to neither frequency sum.
WindowSums(acc, spectrum, sampleRate) ==
  LET bins == 1..Len(spectrum)
      energy == [i \in bins |-> IF spectrum[i].kind = "fin" THEN spectrum[i].sumSquares ELSE 0]
      freqBelow(i, hz) == (i - 1) * sampleRate < hz * fftSize
      energyOver(S) ==
        IF \E i \in S : spectrum[i].kind = "nan" THEN NaN
        ELSE IF \E i \in S : spectrum[i].kind = "inf" THEN PosInf
        ELSE Fin(SumOver([i \in bins |-> IF i \in S THEN energy[i] ELSE 0], 1, Len(spectrum)))
      totalEnergy == energyOver(bins)
      weightedBinSum == SumOver([i \in bins |-> (i - 1) * energy[i]], 1, Len(spectrum))
      band(lo, hi) == {i \in bins : ~freqBelow(i, lo) /\ freqBelow(i, hi)}
      sibilance == {i \in bins : ~freqBelow(i, 6000) /\ (i - 1) * sampleRate <= 10000 * fftSize}
  IN [spectralCentroidSum |->
        CASE isFinite(totalEnergy) /\ totalEnergy.v > 0 ->
               RatAdd(acc.spectralCentroidSum,
                      RatTimes(Reduced(weightedBinSum, totalEnergy.v),
                               Reduced(sampleRate, fftSize)))
          [] isFinite(totalEnergy) /\ totalEnergy.v = 0 -> acc.spectralCentroidSum
          [] isNaN(totalEnergy) -> acc.spectralCentroidSum,
      spectralRolloffSum |->
        CASE isFinite(totalEnergy) ->
               RatAdd(acc.spectralRolloffSum,
                      Reduced(RolloffBin(energy, 1, Len(spectrum), totalEnergy.v) * sampleRate,
                              fftSize))
          [] isNaN(totalEnergy) -> acc.spectralRolloffSum,
      lowEnergySum |-> EnergyAdd(acc.lowEnergySum, energyOver(band(0, 250))),
      midEnergySum |-> EnergyAdd(acc.midEnergySum, energyOver(band(250, 4000))),
      highEnergySum |-> EnergyAdd(acc.highEnergySum, energyOver(bins \ band(0, 4000))),
      sibilanceEnergySum |-> EnergyAdd(acc.sibilanceEnergySum, energyOver(sibilance))]
\* lines 112-160 for the window fftData: line 117 computes its spectrum once
SpectralWindow(acc, fftData, sampleRate) ==
  CHOOSE sums \in {WindowSums(acc, spectrum, sampleRate) :
                     spectrum \in {computeMagnitudeSpectrum(fftData)}} : TRUE

\* lines 112-162: the loop over the first avgCount windows
RECURSIVE SpectralLoop(_, _, _, _, _)
SpectralLoop(channelData, sampleRate, f, avgCount, acc) ==
  IF f >= avgCount THEN acc
  ELSE SpectralLoop(channelData, sampleRate, f + 1, avgCount,
         SpectralWindow(acc, [n \in 1..fftSize |-> channelData[f * fftSize + n]], sampleRate))

\* x / d as the code computes it: 0/0 is NaN
RatOver(x, d) == Rat(x.num, x.den * d)

\* lines 164-166
SpectralAverage(sum, avgCount) == RatOver(sum, avgCount)

\* line 52: the analysed signal
AnalysedChannel(audioBuffer) == audioBuffer.channels[1]

\* sample < 0 and sample >= 0 as lines 68 compare them: NaN is neither
IsNegative(sample) == (isFinite(sample) /\ sample.v < 0) \/ sample = NegInf
IsNonNegative(sample) == (isFinite(sample) /\ sample.v >= 0) \/ sample = PosInf

\* the sum of the squares of the finite samples of channelData[lo..hi]
RECURSIVE SumSquares(_, _, _)
SumSquares(channelData, lo, hi) ==
  IF lo > hi THEN SquareOf(0)
  ELSE IF lo = hi
  THEN (IF isFinite(channelData[lo]) THEN SquareOf(channelData[lo].v) ELSE SquareOf(0))
  ELSE BigAdd(SumSquares(channelData, lo, (lo + hi) \div 2),
              SumSquares(channelData, (lo + hi) \div 2 + 1, hi))
\* x < y for sums of squares
BigLess(x, y) == x.hi < y.hi \/ (x.hi = y.hi /\ x.lo < y.lo)

\* lines 51-208: the features of a decoded buffer of one frame or more.  A
\* sample is a number of 1/Scale, NaN or an infinity.  A NaN sample makes
\* sumSquares and peakLevel NaN, an infinite one makes them Infinity
\* otherwise.
ExtractFeatures(audioBuffer) ==
  LET channelData == AnalysedChannel(audioBuffer)
      sampleRate == audioBuffer.sampleRate
      length == Len(channelData)
      hasNaN == \E i \in 1..length : isNaN(channelData[i])
      hasInfinity == \E i \in 1..length : channelData[i].kind = "inf"
      kind == IF hasNaN THEN "nan" ELSE IF hasInfinity THEN "inf" ELSE "fin"
      previousSample(i) == IF i = 1 THEN Fin(0) ELSE channelData[i - 1]
      peakLevel == MaxOf({Abs(channelData[i].v) : i \in {j \in 1..length : isFinite(channelData[j])}})
      zeroCrossings ==
        Cardinality({i \in 1..length :
                       \/ IsNonNegative(previousSample(i)) /\ IsNegative(channelData[i])
                       \/ IsNegative(previousSample(i)) /\ IsNonNegative(channelData[i])})
      sumSquares == SumSquares(channelData, 1, length)
      rmsLevel == Level(kind, sumSquares, length)
      \* lines 83-100: the level of a window is NaN with a NaN sample in it and
      \* Infinity with an infinite one otherwise
      windowSize == sampleRate \div 10
      windowCount == length \div windowSize
      windows == 0..(windowCount - 1)
      samplesOf(w) == (w * windowSize + 1)..Min(w * windowSize + windowSize, length)
      nanWindows == {w \in windows : \E i \in samplesOf(w) : isNaN(channelData[i])}
      finiteWindows == {w \in windows : \A i \in samplesOf(w) : isFinite(channelData[i])}
      windowSum == [w \in finiteWindows |->
                      SumSquares(channelData, w * windowSize + 1,
                                 Min(w * windowSize + windowSize, length))]
      index == windowCount \div 10
      \* line 99: the levels of the windows in ascending order, Infinity last
      sortedAt(k) ==
        CHOOSE x \in {windowSum[w] : w \in finiteWindows} :
          /\ Cardinality({w \in finiteWindows : BigLess(windowSum[w], x)}) <= k
          /\ k < Cardinality({w \in finiteWindows : ~BigLess(x, windowSum[w])})
      \* lines 103-174
      fftCount == length \div fftSize
      avgCount == Min(fftCount, 50)
      sums == SpectralLoop(channelData, sampleRate, 0, avgCount,
                [spectralCentroidSum |-> Rat(0, 1), spectralRolloffSum |-> Rat(0, 1),
                 lowEnergySum |-> Fin(0), midEnergySum |-> Fin(0), highEnergySum |-> Fin(0),
                 sibilanceEnergySum |-> Fin(0)])
      totalSpectralEnergy ==
        EnergyAdd(EnergyAdd(sums.lowEnergySum, sums.midEnergySum), sums.highEnergySum)
      \* lines 169-172: NaN > 0 is false
      ratio(x) ==
        CASE isFinite(totalSpectralEnergy) ->
               IF totalSpectralEnergy.v > 0 THEN Reduced(x.v, totalSpectralEnergy.v)
               ELSE Rat(0, 1)
          [] isNaN(totalSpectralEnergy) -> Rat(0, 1)
      \* lines 176-191
      transientWindowSize == sampleRate \div 100
      peakOf(lo, hi) == MaxOf({Abs(channelData[i].v) : i \in lo..hi})
      \* currPeak > rmsLevel * 3, for samples that are numbers:
      \* currPeak^2 * length > 9 * sumSquares
      aboveThreshold(currPeak) ==
        ClearlyAbove(NatMul(NatMul(NatOfInt(currPeak), NatOfInt(currPeak)), NatOfInt(length)),
                     NatMul(NatOfInt(9), NatOfBig(sumSquares)))
      \* with a NaN or an infinite sample, rmsLevel * 3 is NaN or Infinity, which
      \* no peak is above
      transientCount ==
        IF kind # "fin" THEN 0
        ELSE Cardinality({j \in 1..(length \div transientWindowSize) :
               LET i == j * transientWindowSize
                   prevPeak == peakOf(i - transientWindowSize + 1, i)
                   currPeak == peakOf(i + 1, i + transientWindowSize)
               IN /\ i < length - transientWindowSize
                  /\ currPeak > prevPeak * 2
                  /\ aboveThreshold(currPeak)})
      \* line 194: transientCount / (length / sampleRate); the double of its tenth
      \* (line 207) is the one nearest to the exact quotient or the one next to it
      transientDensity == Rat(transientCount * sampleRate, length)
  IN [rmsLevel |-> rmsLevel,
      peakLevel |-> IF hasNaN THEN NaN ELSE IF hasInfinity THEN PosInf ELSE Fin(peakLevel),
      \* lines 78-80: NaN > 0 is false; Infinity / Infinity is NaN
      dynamicRange |->
        IF hasNaN THEN ZeroDecibels
        ELSE IF hasInfinity THEN NaNDecibels
        ELSE IF peakLevel > 0 THEN Decibels("ratio", peakLevel, rmsLevel)
        ELSE ZeroDecibels,
      \* line 100: windowRMS[...] || 0, which is 0 for a level of NaN.  With
      \* NaN levels among others the comparison function of line 99 is not
      \* consistent, the order is the engine's, and the noise floor has no
      \* value here.
      noiseFloor |->
        CASE windowCount = 0 -> LevelOf(0)
          [] windowCount > 0 /\ nanWindows = windows -> LevelOf(0)
          [] windowCount > 0 /\ nanWindows = {} ->
               IF index < Cardinality(finiteWindows)
               THEN Level("fin", sortedAt(index), windowSize)
               ELSE InfLevel,
      spectralCentroid |-> SpectralAverage(sums.spectralCentroidSum, avgCount),
      spectralRolloff |-> SpectralAverage(sums.spectralRolloffSum, avgCount),
      zeroCrossingRate |-> Rat(zeroCrossings, length),
      lowEnergyRatio |-> ratio(sums.lowEnergySum),
      midEnergyRatio |-> ratio(sums.midEnergySum),
      highEnergyRatio |-> ratio(sums.highEnergySum),
      sibilanceEnergy |-> ratio(sums.sibilanceEnergySum),
      transientDensity |->
        IF RatGt(transientDensity, 10, 1) THEN Rat(1, 1)
        ELSE Rat(transientDensity.num, transientDensity.den * 10)]

NoBuffer == [channels |-> << <<Fin(0)>> >>, sampleRate |-> 44100]

SuggestIdle ==
  /\ sugPc = "idle"
  /\ sugFeatures = NoResult
  /\ sugSuggestions = NoResult

AnalysisIdle ==
  /\ anPc = "idle"
  /\ anBuffer = NoBuffer
  /\ anFeatures = NoResult

\* ------------------------------------------------ backend/main.mo
\* The callers.
Principals == {"alice", "bob"}
\* UserRole of backend.d.ts
UserRole == {"admin", "user", "guest"}

\* The library authorization/access-control and the mixin
\* authorization/MixinAuthorization are imported by main.mo and are not among
\* the sources; what follows of them is what spec.md says of the authorization
\* gate: an ordinary authenticated user has the permission #user, an
\* elevated role has every permission, and a caller that was given no role
\* is a guest.  accessControlState (a variable) is the role of each
\* principal, "guest" for one that was given none, as it is after
\* AccessControl.initState().
\* AccessControl.initState()
initState == [p \in Principals |-> "guest"]
\* AccessControl.hasPermission(accessControlState, caller, required)
hasPermission(caller, required) ==
  CASE required = "admin" -> accessControlState[caller] = "admin"
    [] required = "user" -> accessControlState[caller] \in {"admin", "user"}
    [] required = "guest" -> TRUE
\* AccessControl.isAdmin(accessControlState, caller)
isAdmin(caller) == accessControlState[caller] = "admin"

\* Map.add and Map.remove of mo:core/Map: add replaces the value of a key
\* that is already present.
MapAdd(map, key, value) ==
  [k \in DOMAIN map \cup {key} |-> IF k = key THEN value ELSE map[k]]
MapRemove(map, key) == [k \in DOMAIN map \ {key} |-> map[k]]
EmptyMap == [k \in {} |-> k]

\* Nat.toText of a time
Digits == <<"0", "1", "2", "3", "4", "5", "6", "7", "8", "9">>
RECURSIVE toText(_)
toText(n) ==
  IF n < 10 THEN Digits[n + 1] ELSE toText(n \div 10) \o Digits[(n % 10) + 1]

Filenames == {"clip"}
ConfigIds == {"main"}
JobIds == {filename \o toText(t) : filename \in Filenames, t \in 1..(MaxTime + 1)}

NoCall ==
  [op |-> "none", caller |-> "", id |-> "", trapped |-> FALSE, reply |-> {},
   jobsBefore |-> EmptyMap, configsBefore |-> EmptyMap]
\* the canister answers a call; a trap rolls the state back
Answer(op, caller, id, reply) ==
  beCall' = [op |-> op, caller |-> caller, id |-> id, trapped |-> FALSE, reply |-> reply,
             jobsBefore |-> processingJobs, configsBefore |-> videoComparisonConfigs]
Trap(op, caller, id) ==
  /\ beCall' = [op |-> op, caller |-> caller, id |-> id, trapped |-> TRUE, reply |-> {},
                jobsBefore |-> processingJobs, configsBefore |-> videoComparisonConfigs]
  /\ UNCHANGED <<processingJobs, userFiles, videoComparisonConfigs>>

BackendIdle ==
  /\ processingJobs = EmptyMap
  /\ userFiles = [p \in Principals |-> <<>>]
  /\ videoComparisonConfigs = EmptyMap
  /\ now = 1
  /\ beCall = NoCall
  /\ accessControlState = initState

nonBackendVars == <<dspVars, metricVars, tcVars, platformVars, encVars, mapVars, tuneVars,
                    edVars, anVars, sugVars>>

\* the number of media files the canister keeps
RECURSIVE FilesOf(_)
FilesOf(callers) ==
  IF callers = {} THEN 0
  ELSE LET p == CHOOSE q \in callers : TRUE
       IN Len(userFiles[p]) + FilesOf(callers \ {p})

uploadMediaFile(caller, filename) ==
  /\ FilesOf(Principals) < MaxFiles
  /\ IF ~hasPermission(caller, "user")
     THEN Trap("uploadMediaFile", caller, filename)
     ELSE LET mediaFile == [filename |-> filename, uploadTime |-> now]
              jobId == filename \o toText(now)
              \* an optional value is the set of what it holds: null is {}
              processingJob ==
                [jobId |-> jobId, user |-> caller, status |-> "pending", startTime |-> now,
                 endTime |-> {}, tripleCheckAnalysisResult |-> {}]
          IN /\ userFiles' = [userFiles EXCEPT ![caller] = Append(@, mediaFile)]
             /\ processingJobs' = MapAdd(processingJobs, jobId, processingJob)
             /\ Answer("uploadMediaFile", caller, filename, {jobId})
             /\ UNCHANGED videoComparisonConfigs
  /\ UNCHANGED <<now, accessControlState, nonBackendVars>>

\* the test of getProcessingJob, getTripleCheckAnalysis and deleteProcessingJob
OwnJobOrAdminUnchecked(job, caller) == TRUE
OwnJobOrAdmin(job, caller) == ~(job.user # caller /\ ~isAdmin(caller))

getProcessingJob(caller, jobId) ==
  /\ IF ~hasPermission(caller, "user")
     THEN Trap("getProcessingJob", caller, jobId)
     ELSE IF jobId \notin DOMAIN processingJobs
     THEN /\ Answer("getProcessingJob", caller, jobId, {})
          /\ UNCHANGED <<processingJobs, userFiles, videoComparisonConfigs>>
     ELSE IF ~OwnJobOrAdmin(processingJobs[jobId], caller)
     THEN Trap("getProcessingJob", caller, jobId)
     ELSE /\ Answer("getProcessingJob", caller, jobId, {processingJobs[jobId]})
          /\ UNCHANGED <<processingJobs, userFiles, videoComparisonConfigs>>
  /\ UNCHANGED <<now, accessControlState, nonBackendVars>>

filterProcessingJobs(predicate(_)) ==
  {processingJobs[jobId] : jobId \in {k \in DOMAIN processingJobs : predicate(processingJobs[k])}}

getMyProcessingJobs(caller) ==
  /\ IF ~hasPermission(caller, "user")
     THEN Trap("getMyProcessingJobs", caller, "")
     ELSE LET Mine(job) == job.user = caller
          IN /\ Answer("getMyProcessingJobs", caller, "", filterProcessingJobs(Mine))
             /\ UNCHANGED <<processingJobs, userFiles, videoComparisonConfigs>>
  /\ UNCHANGED <<now, accessControlState, nonBackendVars>>

\* lines 778-793: the reply is the analysis stored with the job, null until
\* updateTripleCheckAnalysis has stored one
getTripleCheckAnalysis(caller, jobId) ==
  /\ IF ~hasPermission(caller, "user")
     THEN Trap("getTripleCheckAnalysis", caller, jobId)
     ELSE IF jobId \notin DOMAIN processingJobs
     THEN /\ Answer("getTripleCheckAnalysis", caller, jobId, {})
          /\ UNCHANGED <<processingJobs, userFiles, videoComparisonConfigs>>
     ELSE IF ~OwnJobOrAdmin(processingJobs[jobId], caller)
     THEN Trap("getTripleCheckAnalysis", caller, jobId)
     ELSE /\ Answer("getTripleCheckAnalysis", caller, jobId,
                    processingJobs[jobId].tripleCheckAnalysisResult)
          /\ UNCHANGED <<processingJobs, userFiles, videoComparisonConfigs>>
  /\ UNCHANGED <<now, accessControlState, nonBackendVars>>

\* the analysis results the administrator stores
AnalysisResults == {[noiseDifferences |-> <<0>>]}

\* lines 795-813
updateTripleCheckAnalysis(caller, jobId, analysisResult) ==
  /\ IF ~hasPermission(caller, "admin")
     THEN Trap("updateTripleCheckAnalysis", caller, jobId)
     ELSE IF jobId \notin DOMAIN processingJobs
     THEN Trap("updateTripleCheckAnalysis", caller, jobId)
     ELSE /\ processingJobs' =
               MapAdd(processingJobs, jobId,
                      [processingJobs[jobId] EXCEPT
                         !.tripleCheckAnalysisResult = {analysisResult}])
          /\ Answer("updateTripleCheckAnalysis", caller, jobId, {})
          /\ UNCHANGED <<userFiles, videoComparisonConfigs>>
  /\ UNCHANGED <<now, accessControlState, nonBackendVars>>

deleteProcessingJob(caller, jobId) ==
  /\ IF ~hasPermission(caller, "user")
     THEN Trap("deleteProcessingJob", caller, jobId)
     ELSE IF jobId \notin DOMAIN processingJobs
     THEN Trap("deleteProcessingJob", caller, jobId)
     ELSE IF ~OwnJobOrAdmin(processingJobs[jobId], caller)
     THEN Trap("deleteProcessingJob", caller, jobId)
     ELSE /\ processingJobs' = MapRemove(processingJobs, jobId)
          /\ Answer("deleteProcessingJob", caller, jobId, {})
          /\ UNCHANGED <<userFiles, videoComparisonConfigs>>
  /\ UNCHANGED <<now, accessControlState, nonBackendVars>>

ProcessingStatus == {"pending", "processing", "completed", "failed"}
\* the status the administrator sets here
StatusChoices == {"completed"}

\* lines 854-875
updateJobStatus(caller, jobId, status) ==
  /\ IF ~hasPermission(caller, "admin")
     THEN Trap("updateJobStatus", caller, jobId)
     ELSE IF jobId \notin DOMAIN processingJobs
     THEN Trap("updateJobStatus", caller, jobId)
     ELSE /\ processingJobs' =
               MapAdd(processingJobs, jobId,
                      [processingJobs[jobId] EXCEPT
                         !.status = status,
                         !.endTime = IF status \in {"completed", "failed"} THEN {now} ELSE @])
          /\ Answer("updateJobStatus", caller, jobId, {})
          /\ UNCHANGED <<userFiles, videoComparisonConfigs>>
  /\ UNCHANGED <<now, accessControlState, nonBackendVars>>

\* the test of getVideoComparisonConfig and saveVideoComparisonConfig
OwnConfigOrAdmin(config, caller) == ~(config.owner # caller /\ ~isAdmin(caller))

getVideoComparisonConfig(caller, configId) ==
  /\ IF ~hasPermission(caller, "user")
     THEN Trap("getVideoComparisonConfig", caller, configId)
     ELSE IF configId \notin DOMAIN videoComparisonConfigs
     THEN /\ Answer("getVideoComparisonConfig", caller, configId, {})
          /\ UNCHANGED <<processingJobs, userFiles, videoComparisonConfigs>>
     ELSE IF ~OwnConfigOrAdmin(videoComparisonConfigs[configId], caller)
     THEN Trap("getVideoComparisonConfig", caller, configId)
     ELSE /\ Answer("getVideoComparisonConfig", caller, configId,
                    {videoComparisonConfigs[configId]})
          /\ UNCHANGED <<processingJobs, userFiles, videoComparisonConfigs>>
  /\ UNCHANGED <<now, accessControlState, nonBackendVars>>

saveVideoComparisonConfig(caller, configId, config) ==
  /\ IF ~hasPermission(caller, "user")
     THEN Trap("saveVideoComparisonConfig", caller, configId)
     ELSE IF ~OwnConfigOrAdmin(config, caller)
     THEN Trap("saveVideoComparisonConfig", caller, configId)
     ELSE /\ videoComparisonConfigs' = MapAdd(videoComparisonConfigs, configId, config)
          /\ Answer("saveVideoComparisonConfig", caller, configId, {})
          /\ UNCHANGED <<processingJobs, userFiles>>
  /\ UNCHANGED <<now, accessControlState, nonBackendVars>>

\* assignCallerUserRole(user, role) of the mixin (backend.d.ts line 30) gives
\* user the role.  Which callers the mixin admits is said neither by the
\* sources nor by spec.md: the call is answered or it traps.
assignCallerUserRole(caller, user, role) ==
  /\ \/ /\ accessControlState' = [accessControlState EXCEPT ![user] = role]
        /\ Answer("assignCallerUserRole", caller, "", {})
        /\ UNCHANGED <<processingJobs, userFiles, videoComparisonConfigs>>
     \/ /\ Trap("assignCallerUserRole", caller, "")
        /\ UNCHANGED accessControlState
  /\ UNCHANGED <<now, nonBackendVars>>

\* Time.now() is the same for every call of one round and grows from round
\* to round.
NextRound ==
  /\ now < MaxTime
  /\ now' = now + 1
  /\ UNCHANGED <<processingJobs, userFiles, videoComparisonConfigs, beCall,
               accessControlState, nonBackendVars>>

ExtIdle == AnalysisIdle /\ BackendIdle /\ SuggestIdle

\* ------------------------------------------------ autoAudioAssessment.ts
\* The features generateSuggestedSettings reads are fractions (the two
\* frequencies in Hz, possibly NaN) and levels.  A feature the code compares
\* or multiplies as it stands is compared and multiplied exactly; where the
\* code first subtracts it from, or divides it by, a constant that is no
\* double (0.33, 0.45, 0.2, ...), the exact result is the code's except at the
\* points named below.

\* r - a / b and a / b - r
RatMinus(r, a, b) == IF r.den = 0 THEN r ELSE Reduced(r.num * b - a * r.den, r.den * b)
RatFrom(a, b, r) == IF r.den = 0 THEN r ELSE Reduced(a * r.den - r.num * b, r.den * b)
\* x - y for fractions that are numbers, times a common denominator
RatAbove(x, y) ==
  LET g == Gcd(x.den, y.den) IN x.num * (y.den \div g) - y.num * (x.den \div g)
RatSame(x, y) == RatAbove(x, y) = 0
RatMax(x, y) == IF RatAbove(x, y) > 0 THEN x ELSE y

\* variant: the boost for voice clarity does not ask for voice isolation
MidBandRuleBoostsQuietMids(voiceIsolationNeeded, midEnergyRatio) ==
  IF RatLt(midEnergyRatio, 4, 10)
  THEN ClampedRound(RatFrom(4, 10, midEnergyRatio), 25, 0, 5, {midEnergyRatio}, {})
  ELSE IF RatGt(midEnergyRatio, 5, 10)
  THEN -ClampedRound(RatMinus(midEnergyRatio, 5, 10), 20, 0, 4, {midEnergyRatio}, {})
  ELSE 0

\* lines 298-304
MidBandRule(voiceIsolationNeeded, midEnergyRatio) ==
  IF voiceIsolationNeeded /\ RatLt(midEnergyRatio, 4, 10)
  THEN ClampedRound(RatFrom(4, 10, midEnergyRatio), 25, 0, 5, {midEnergyRatio}, {})
  ELSE IF RatGt(midEnergyRatio, 5, 10)
  THEN -ClampedRound(RatMinus(midEnergyRatio, 5, 10), 20, 0, 4, {midEnergyRatio}, {})
  ELSE 0

\* lines 241-340, for features whose rates and ratios are numbers; the bands
\* are in hundredths of a dB, the confidence in tenths
generateSuggestedSettings(features) ==
  LET ratios == {features.lowEnergyRatio, features.midEnergyRatio, features.highEnergyRatio}
      noiseSuppressionNeeded ==
        LevelGt(features.noiseFloor, 2, 100) \/ RatGt(features.zeroCrossingRate, 15, 100)
      \* (noiseFloor / 0.1) * 100
      noiseSuppressionStrength == ClampedRoundLevel(features.noiseFloor, 1000, 30, 100)
      transientSuppressionNeeded == RatGt(features.transientDensity, 3, 10)
      transientSuppressionStrength ==
        ClampedRound(features.transientDensity, 150, 40, 100, {features.transientDensity}, {})
      voiceIsolationNeeded ==
        RatGt(features.midEnergyRatio, 4, 10) /\ RatLt(features.spectralCentroid, 2500, 1)
      voiceIsolationStrength ==
        ClampedRound(features.midEnergyRatio, 120, 50, 100, {features.midEnergyRatio}, {})
      spectralRepairNeeded ==
        RatGt(features.sibilanceEnergy, 8, 100) \/ RatGt(features.spectralRolloff, 8000, 1)
      \* (sibilanceEnergy / 0.2) * 100
      spectralRepairStrength ==
        ClampedRound(features.sibilanceEnergy, 500, 40, 100, {features.sibilanceEnergy}, {})
      imbalanceOf(x) == RatAbs(RatMinus(x, 33, 100))
      frequencyImbalance ==
        RatMax(imbalanceOf(features.lowEnergyRatio),
               RatMax(imbalanceOf(features.midEnergyRatio),
                      imbalanceOf(features.highEnergyRatio)))
      \* at 0.15 exactly the doubles of the difference and of 0.15 decide
      dynamicEQNeeded ==
        \E imbalance \in {frequencyImbalance} :
          CASE ~RatSame(imbalance, Rat(15, 100)) -> RatGt(imbalance, 15, 100)
      dynamicEQStrength ==
        CHOOSE strength \in
          {ClampedRound(imbalance, 200, 30, 100,
                        {x \in ratios : RatSame(imbalanceOf(x), imbalance)}, {}) :
           imbalance \in {frequencyImbalance}} : TRUE
      deClickDeChirpNeeded ==
        RatGt(features.zeroCrossingRate, 2, 10) \/ RatGt(features.transientDensity, 5, 10)
      deClickDeChirpStrength ==
        ClampedRound(features.zeroCrossingRate, 300, 35, 100, {features.zeroCrossingRate}, {})
      \* line 293: 0.45 is a double a little above 45/100, and
      \* (lowEnergyRatio - 0.45) * 30 falls short of 1.5 for lowEnergyRatio = 0.5
      lowBand ==
        IF RatGt(features.lowEnergyRatio, 45, 100)
        THEN -ClampedRound(RatMinus(features.lowEnergyRatio, 45, 100), 30, 0, 6,
                           {features.lowEnergyRatio}, {Rat(1, 2)})
        ELSE IF RatLt(features.lowEnergyRatio, 25, 100)
        THEN ClampedRound(RatFrom(25, 100, features.lowEnergyRatio), 20, 0, 4,
                          {features.lowEnergyRatio}, {})
        ELSE 0
      midBand == MidBandRule(voiceIsolationNeeded, features.midEnergyRatio)
      highBand ==
        IF RatGt(features.sibilanceEnergy, 12, 100)
        THEN -ClampedRound(RatMinus(features.sibilanceEnergy, 12, 100), 40, 0, 6,
                           {features.sibilanceEnergy}, {})
        ELSE IF RatLt(features.spectralCentroid, 1500, 1)
                /\ RatLt(features.highEnergyRatio, 2, 10)
        THEN ClampedRound(RatFrom(2, 10, features.highEnergyRatio), 20, 0, 4,
                          {features.highEnergyRatio}, {})
        ELSE 0
      bandSum ==
        RatAdd(RatAdd(features.lowEnergyRatio, features.midEnergyRatio),
               features.highEnergyRatio)
      bandsOff == RatAbs(RatMinus(bandSum, 1, 1))
      \* in tenths; at 0.1 exactly the doubles of the sum and of 0.1 decide
      confidence ==
        Min(10,
            (IF LevelGt(features.rmsLevel, 1, 100) THEN 3 ELSE 0)
            + (IF DecibelsAboveSix(features.dynamicRange) THEN 3 ELSE 0)
            + (CHOOSE points \in
                 {(CASE ~RatSame(off, Rat(1, 10)) -> IF RatLt(off, 1, 10) THEN 4 ELSE 0) :
                  off \in {bandsOff}} : TRUE))
  IN CASE \A x \in ratios \cup {features.zeroCrossingRate, features.sibilanceEnergy,
                                features.transientDensity} : x.den # 0 ->
       [noiseSuppression |-> noiseSuppressionNeeded,
        noiseSuppressionStrength |-> noiseSuppressionStrength,
        transientSuppression |-> transientSuppressionNeeded,
        transientSuppressionStrength |-> transientSuppressionStrength,
        voiceIsolation |-> voiceIsolationNeeded,
        voiceIsolationStrength |-> voiceIsolationStrength,
        spectralRepair |-> spectralRepairNeeded,
        spectralRepairStrength |-> spectralRepairStrength,
        dynamicEQ |-> dynamicEQNeeded,
        dynamicEQStrength |-> dynamicEQStrength,
        deClickDeChirp |-> deClickDeChirpNeeded,
        deClickDeChirpStrength |-> deClickDeChirpStrength,
        lowBand |-> lowBand * IntensityScale,
        midBand |-> midBand * IntensityScale,
        highBand |-> highBand * IntensityScale,
        confidence |-> confidence]

\* ------------------------------------------------ autoDspAutoTune.ts
\* Math.max(0, Math.min(1, intensity))
ClampIntensity(intensity) == Max(0, Min(IntensityScale, intensity))

\* variant: the stages are not gated by the intensity
IntensityGateOpen(clampedIntensity) == TRUE

\* clampedIntensity > 0.1
IntensityGate(clampedIntensity) == clampedIntensity * 10 > IntensityScale

\* The intensity is the double nearest to clampedIntensity / 100, a 53-bit
\* numerator over 2^(52 + j) with clampedIntensity / 100 in [2^-j, 2^-(j-1)).
BinaryExponent(clampedIntensity) ==
  CHOOSE j \in 0..7 : clampedIntensity * 2^j >= IntensityScale
                        /\ (j > 0 => clampedIntensity * 2^(j - 1) < IntensityScale)
RECURSIVE TwoPowerMod(_, _)
\* 2^e modulo n, by squaring
TwoPowerMod(e, n) ==
  IF e = 0 THEN 1 % n
  ELSE LET half == TwoPowerMod(e \div 2, n)
       IN (half * half * (IF e % 2 = 1 THEN 2 ELSE 1)) % n
\* 100 * 2^(52 + j) times what the double falls short of clampedIntensity / 100
\* (negative when the double is the larger)
IntensityShortfall(clampedIntensity) ==
  LET rest == (clampedIntensity
                 * TwoPowerMod(52 + BinaryExponent(clampedIntensity), IntensityScale))
              % IntensityScale
  IN IF 2 * rest <= IntensityScale THEN rest ELSE rest - IntensityScale
\* The exact product is k + 1/2 and the product of the doubles is short of it
\* by more than half the spacing of the doubles below k + 1/2, so that the
\* floating-point product is below k + 1/2.
ProductFallsShort(strength, clampedIntensity, k) ==
  LET short == IntensityShortfall(clampedIntensity)
      \* the doubles below k + 1/2 are 2^(h - 52) apart
      h == IF k = 0 THEN -2 ELSE CHOOSE m \in 0..6 : 2^m <= k /\ k < 2^(m + 1)
      shift == BinaryExponent(clampedIntensity) - 1 + h
  IN /\ short > 0
     /\ strength * short * 2^Max(0, -shift) > IntensityScale * 2^Max(0, shift)

\* Math.round(strength * clampedIntensity), the product being that of the
\* doubles: it differs from the exact one only where the exact product is
\* k + 1/2 and the floating-point product falls below it
ScaleStrength(strength, clampedIntensity) ==
  LET exact == strength * clampedIntensity
      k == exact \div IntensityScale
  IN IF exact % IntensityScale # IntensityScale \div 2
     THEN RoundDiv(exact, IntensityScale)
     ELSE IF ProductFallsShort(strength, clampedIntensity, k) THEN k ELSE k + 1
\* band * clampedIntensity, for a band in hundredths of a dB
ScaleBand(band, clampedIntensity) == (band * clampedIntensity) \div IntensityScale

\* lines 36-47
ScaledSuggestions(suggestions, clampedIntensity) ==
  [suggestions EXCEPT
     !.noiseSuppressionStrength = ScaleStrength(@, clampedIntensity),
     !.transientSuppressionStrength = ScaleStrength(@, clampedIntensity),
     !.voiceIsolationStrength = ScaleStrength(@, clampedIntensity),
     !.spectralRepairStrength = ScaleStrength(@, clampedIntensity),
     !.dynamicEQStrength = ScaleStrength(@, clampedIntensity),
     !.deClickDeChirpStrength = ScaleStrength(@, clampedIntensity),
     !.lowBand = ScaleBand(@, clampedIntensity),
     !.midBand = ScaleBand(@, clampedIntensity),
     !.highBand = ScaleBand(@, clampedIntensity)]

\* lines 50-79
TunedOptions(scaled, clampedIntensity) ==
  [noiseSuppression |->
     StageConfig(scaled.noiseSuppression /\ IntensityGate(clampedIntensity),
                 scaled.noiseSuppressionStrength),
   transientSuppression |->
     StageConfig(scaled.transientSuppression /\ IntensityGate(clampedIntensity),
                 scaled.transientSuppressionStrength),
   voiceIsolation |->
     StageConfig(scaled.voiceIsolation /\ IntensityGate(clampedIntensity),
                 scaled.voiceIsolationStrength),
   spectralRepair |->
     StageConfig(scaled.spectralRepair /\ IntensityGate(clampedIntensity),
                 scaled.spectralRepairStrength),
   dynamicEQ |->
     StageConfig(scaled.dynamicEQ /\ IntensityGate(clampedIntensity),
                 scaled.dynamicEQStrength),
   deClickDeChirp |->
     StageConfig(scaled.deClickDeChirp /\ IntensityGate(clampedIntensity),
                 scaled.deClickDeChirpStrength),
   lowBandAdjustment |-> scaled.lowBand,
   midBandAdjustment |-> scaled.midBand,
   highBandAdjustment |-> scaled.highBand]

\* lines 81-86
AutoTuneResult(features, intensity) ==
  LET clampedIntensity == ClampIntensity(intensity)
      suggestions == generateSuggestedSettings(features)
  IN CHOOSE result \in
       {[kind |-> "result",
         dspOptions |-> TunedOptions(scaledSuggestions, clampedIntensity),
         features |-> features,
         suggestions |-> scaledSuggestions,
         appliedIntensity |-> clampedIntensity] :
        scaledSuggestions \in {ScaledSuggestions(suggestions, clampedIntensity)}} : TRUE

\* lines 103-116: every feature 0
ZeroFeatures ==
  [rmsLevel |-> LevelOf(0), peakLevel |-> Fin(0), dynamicRange |-> ZeroDecibels,
   noiseFloor |-> LevelOf(0), spectralCentroid |-> Rat(0, 1), spectralRolloff |-> Rat(0, 1),
   zeroCrossingRate |-> Rat(0, 1), lowEnergyRatio |-> Rat(0, 1), midEnergyRatio |-> Rat(0, 1),
   highEnergyRatio |-> Rat(0, 1), sibilanceEnergy |-> Rat(0, 1),
   transientDensity |-> Rat(0, 1)]

\* lines 91-136: the safe defaults of the catch block
AutoTuneFallback(intensity) ==
  [kind |-> "result",
   dspOptions |->
     [noiseSuppression |-> StageConfig(TRUE, 50),
      transientSuppression |-> StageConfig(TRUE, 50),
      voiceIsolation |-> StageConfig(TRUE, 50),
      spectralRepair |-> StageConfig(TRUE, 50),
      dynamicEQ |-> StageConfig(FALSE, 50),
      deClickDeChirp |-> StageConfig(FALSE, 50),
      lowBandAdjustment |-> 0,
      midBandAdjustment |-> 0,
      highBandAdjustment |-> 0],
   features |-> ZeroFeatures,
   suggestions |->
     [noiseSuppression |-> TRUE, noiseSuppressionStrength |-> 50,
      transientSuppression |-> TRUE, transientSuppressionStrength |-> 50,
      voiceIsolation |-> TRUE, voiceIsolationStrength |-> 50,
      spectralRepair |-> TRUE, spectralRepairStrength |-> 50,
      dynamicEQ |-> FALSE, dynamicEQStrength |-> 50,
      deClickDeChirp |-> FALSE, deClickDeChirpStrength |-> 50,
      lowBand |-> 0, midBand |-> 0, highBand |-> 0, confidence |-> 0],
   appliedIntensity |-> intensity]

AnalysisFailure == [isError |-> TRUE, message |-> "Failed to analyze audio file"]

\* the sample rate of an AudioContext, and of the buffers it decodes, is the
\* output device's
ContextRates == {44100, 48000}

\* autoTuneDSP(file, intensity) is entered: lines 27-30 and the head of
\* analyzeAudioFile, up to the first await
EnterAutoTune(file, intensity) ==
  /\ tunePc' = "readFile"
  /\ tuneFile' = file
  /\ tuneIntensity' = intensity
  /\ tuneFeatures' = ZeroFeatures
  /\ tuneCause' = NoCause
  /\ tuneResult' = NoResult

tuneOnlyUnchanged == <<dspVars, metricVars, tcVars, encVars, mapVars, edVars, extVars>>

\* analyzeAudioFile lines 47-49: the file is read, the AudioContext is opened,
\* decoding starts
AnalyzeReadFile ==
  /\ tunePc = "readFile"
  /\ openContexts' = openContexts + 1
  /\ tunePc' = "decoding"
  /\ UNCHANGED <<tuneFile, tuneIntensity, tuneFeatures, tuneCause, tuneResult, liveUrls,
                 nextUrl, tuneOnlyUnchanged>>

\* analyzeAudioFile lines 49-193: decodeAudioData resolves, the features are
\* computed and the context is closed; the call waits for the close
AnalyzeResolves ==
  /\ tunePc = "decoding"
  /\ tuneFile.decodable
  /\ openContexts' = openContexts - 1
  /\ tunePc' = "closing"
  /\ UNCHANGED <<tuneFile, tuneIntensity, tuneFeatures, tuneCause, tuneResult, liveUrls,
                 nextUrl, tuneOnlyUnchanged>>

\* analyzeAudioFile lines 195-208: the close has resolved, the features are
\* returned; they are those of the buffer at the rate of the context
AnalyzeReturns ==
  /\ tunePc = "closing"
  /\ \E rate \in ContextRates :
       tuneFeatures' = ExtractFeatures([channels |-> tuneFile.audio, sampleRate |-> rate])
  /\ tunePc' = "analyzed"
  /\ UNCHANGED <<tuneFile, tuneIntensity, tuneCause, tuneResult, platformVars,
                 tuneOnlyUnchanged>>

\* analyzeAudioFile lines 49 and 209-212: decodeAudioData rejects, the catch
\* block throws the analysis error
AnalyzeRejects ==
  /\ tunePc = "decoding"
  /\ ~tuneFile.decodable
  /\ tuneCause' = AnalysisFailure
  /\ tunePc' = "catch"
  /\ UNCHANGED <<tuneFile, tuneIntensity, tuneFeatures, tuneResult, platformVars,
                 tuneOnlyUnchanged>>

\* lines 33-86: the suggestions, their scaling, the options, the return
TuneReturns ==
  /\ tunePc = "analyzed"
  /\ tuneResult' = AutoTuneResult(tuneFeatures, tuneIntensity)
  /\ tunePc' = "returned"
  /\ UNCHANGED <<tuneFile, tuneIntensity, tuneFeatures, tuneCause, platformVars,
                 tuneOnlyUnchanged>>

\* variant: the catch block rethrows
TuneCatchRethrows ==
  /\ tunePc = "catch"
  /\ tuneResult' = [kind |-> "error", message |-> tuneCause.message]
  /\ tunePc' = "thrown"
  /\ UNCHANGED <<tuneFile, tuneIntensity, tuneFeatures, tuneCause, platformVars,
                 tuneOnlyUnchanged>>

\* lines 87-137: the catch block returns the safe defaults
TuneCatch ==
  /\ tunePc = "catch"
  /\ tuneResult' = AutoTuneFallback(tuneIntensity)
  /\ tunePc' = "returned"
  /\ UNCHANGED <<tuneFile, tuneIntensity, tuneFeatures, tuneCause, platformVars,
                 tuneOnlyUnchanged>>

TuneStep ==
  \/ AnalyzeReadFile \/ AnalyzeResolves \/ AnalyzeReturns \/ AnalyzeRejects
  \/ TuneReturns \/ TuneCatch

TuneIdle ==
  /\ tunePc = "idle"
  /\ tuneFile = NoFile
  /\ tuneIntensity = IntensityScale
  /\ tuneFeatures = ZeroFeatures
  /\ tuneCause = NoCause
  /\ tuneResult = NoResult

\* the options handleRunDiagnostics passes: no diagnosticsMode, no onProgress
SettingsOptions(st) ==
  [noiseSuppression |-> StageConfig(st.noiseSuppression, st.noiseSuppressionStrength),
   transientSuppression |-> StageConfig(st.transientSuppression, st.transientSuppressionStrength),
   voiceIsolation |-> StageConfig(st.voiceIsolation, st.voiceIsolationStrength),
   spectralRepair |-> StageConfig(st.spectralRepair, st.spectralRepairStrength),
   dynamicEQ |-> StageConfig(st.dynamicEQ, st.dynamicEQStrength),
   deClickDeChirp |-> StageConfig(st.deClickDeChirp, st.deClickDeChirpStrength),
   lowBandAdjustment |-> st.lowBand,
   midBandAdjustment |-> st.midBand,
   highBandAdjustment |-> st.highBand]

\* the initial settings of the editor
InitialSettings ==
  [noiseSuppression |-> TRUE, noiseSuppressionStrength |-> 80,
   transientSuppression |-> TRUE, transientSuppressionStrength |-> 75,
   voiceIsolation |-> TRUE, voiceIsolationStrength |-> 85,
   spectralRepair |-> TRUE, spectralRepairStrength |-> 70,
   dynamicEQ |-> FALSE, dynamicEQStrength |-> 50,
   deClickDeChirp |-> FALSE, deClickDeChirpStrength |-> 50,
   lowBand |-> 0, midBand |-> 0, highBand |-> 0]

\* AdvancedAudioEditor.tsx lines 55-91: the state of a component that has not
\* been mounted
EditorIdle ==
  /\ lifecycle = "new"
  /\ originalFile = NoFile
  /\ originalAudioUrl = 0
  /\ autoIntensity = 75
  /\ isAnalyzing = FALSE
  /\ analysisComplete = FALSE
  /\ settings = InitialSettings
  /\ isRunningDiagnostics = FALSE
  /\ diagnosticsReport = NoResult
  /\ autoAnalyzePc = "idle"
  /\ runDiagnosticsPc = "idle"
  /\ report = NoResult
  /\ mode = "auto"
  /\ isProcessing = FALSE
  /\ processPc = "idle"
  /\ processedAudioUrl = 0
  /\ processSettings = InitialSettings
  /\ processFile = NoFile

PlatformIdle ==
  /\ liveUrls = {}
  /\ nextUrl = 1
  /\ openContexts = 0

EncodeIdle ==
  /\ encPc = "idle"
  /\ encInput = << <<Fin(0)>> >>
  /\ encResult = NoWav
  /\ encBlob = NotAudio
  /\ encDecoded = << >>

MapperIdle ==
  /\ mapPc = "idle"
  /\ mapModule = "dspTypes"
  /\ mapArgs = <<0, 0, 0>>
  /\ mapResult = Rat(0, 1)

RestIdle == EncodeIdle /\ MapperIdle /\ TuneIdle /\ EditorIdle /\ ExtIdle

InitMetrics ==
  /\ metricsPc = "input"
  /\ metricsIn \in MetricsInputs
  /\ abnormalitiesOut = NoAbnormalities
  /\ DspIdle /\ TcIdle /\ PlatformIdle /\ RestIdle
NextMetrics == CallDetectAbnormalities
SpecMetrics == InitMetrics /\ [][NextMetrics]_vars

\* ------------------------------------------------ the pipeline called directly
StrengthValues == {0, 50}
BandValues == {0, 6 * IntensityScale}
StageConfigs == {StageConfig(e, s) : e \in BOOLEAN, s \in StrengthValues}

FullOptions ==
  [noiseSuppression : StageConfigs, transientSuppression : StageConfigs,
   voiceIsolation : StageConfigs, spectralRepair : StageConfigs,
   dynamicEQ : StageConfigs, deClickDeChirp : StageConfigs,
   lowBandAdjustment : BandValues, midBandAdjustment : BandValues,
   highBandAdjustment : BandValues, diagnosticsMode : BOOLEAN]

\* every full options value, and the call that leaves every option out
OptionInputs == FullOptions \cup {<< >>}

DirectInput == << <<Fin(0)>> >>

CallProcessAudioWithDSP ==
  /\ dspPc = "idle"
  /\ \E options \in OptionInputs : EnterDSP("direct", DirectInput, options)
  /\ UNCHANGED nonDspVars

InitDSP == DspIdle /\ MetricsIdle /\ TcIdle /\ PlatformIdle /\ RestIdle
NextDSP == CallProcessAudioWithDSP \/ DspStep
SpecDSP == InitDSP /\ [][NextDSP]_vars


\* ------------------------------------------------ runTripleCheck called directly
Files == {[decodable |-> TRUE, audio |-> b] : b \in Buffers} \cup {NoFile}

\* settings a user can reach with the manual controls
SettingsChoices ==
  {InitialSettings,
   [InitialSettings EXCEPT !.noiseSuppression = FALSE, !.transientSuppression = FALSE,
                           !.voiceIsolation = FALSE, !.spectralRepair = FALSE],
   [InitialSettings EXCEPT !.dynamicEQ = TRUE, !.deClickDeChirp = TRUE,
                           !.noiseSuppressionStrength = 100,
                           !.lowBand = 12 * IntensityScale,
                           !.highBand = -12 * IntensityScale]}

CallRunTripleCheck ==
  /\ tcPc = "idle"
  /\ \E file \in Files : \E st \in SettingsChoices :
       EnterTripleCheck(file, SettingsOptions(st))
  /\ UNCHANGED <<dspVars, metricVars, platformVars, restVars>>

InitTriple == DspIdle /\ MetricsIdle /\ TcIdle /\ PlatformIdle /\ RestIdle
NextTriple == CallRunTripleCheck \/ TcStep \/ DspStep
SpecTriple == InitTriple /\ [][NextTriple]_vars

\* ------------------------------------------------ the encoder called directly
\* samples at, next to and beyond the boundary of [-1, 1], and samples that fall
\* between two 16-bit codes
EncoderSamples ==
  {NaN, PosInf, NegInf, Fin(0), Fin(Scale), Fin(-Scale), Fin(Scale + 1), Fin(-Scale - 1),
   Fin(Scale - 1), Fin((Unit - 1) * SubSteps + 1), Fin(-(Scale \div 2) - 1)}

EncoderBuffers ==
  UNION {[1..c -> [1..n -> EncoderSamples]] : c \in 1..2, n \in 1..MaxFrames}

CallEncodeWAV ==
  /\ encPc = "input"
  /\ encResult' = encodeWAV(encInput)
  /\ encPc' = "encoded"
  /\ UNCHANGED <<encInput, encBlob, encDecoded, mapVars, tuneVars, edVars, extVars,
                 dspVars, metricVars, tcVars, platformVars>>

encOnlyUnchanged == <<mapVars, tuneVars, edVars, extVars, dspVars, metricVars, tcVars>>

\* wavEncoder.ts lines 94-95: decodeWAV is called, on the blob of encodeWAV or
\* on a blob that is no audio, and waits for the bytes
CallDecodeWAV ==
  /\ encPc = "encoded"
  /\ encBlob' \in {encResult.blob, NotAudio}
  /\ encPc' = "reading"
  /\ UNCHANGED <<encInput, encResult, encDecoded, platformVars, encOnlyUnchanged>>

\* wavEncoder.ts lines 96-97: the AudioContext is opened, decoding starts
DecodeWAVOpens ==
  /\ encPc = "reading"
  /\ openContexts' = openContexts + 1
  /\ encPc' = "decoding"
  /\ UNCHANGED <<encInput, encResult, encBlob, encDecoded, liveUrls, nextUrl,
                 encOnlyUnchanged>>

\* wavEncoder.ts lines 97-98: the decode resolves, the context is closed
DecodeWAVResolves ==
  /\ encPc = "decoding"
  /\ encBlob # NotAudio
  /\ encDecoded' \in decodeAudioData(encBlob)
  /\ openContexts' = openContexts - 1
  /\ encPc' = "closing"
  /\ UNCHANGED <<encInput, encResult, encBlob, liveUrls, nextUrl, encOnlyUnchanged>>

\* wavEncoder.ts line 97: the decode rejects and decodeWAV with it; line 98 is
\* skipped
DecodeWAVRejects ==
  /\ encPc = "decoding"
  /\ encBlob = NotAudio
  /\ encPc' = "thrown"
  /\ UNCHANGED <<encInput, encResult, encBlob, encDecoded, platformVars,
                 encOnlyUnchanged>>

\* wavEncoder.ts lines 98-99: the context has closed, the buffer is returned
DecodeWAVReturns ==
  /\ encPc = "closing"
  /\ encPc' = "decoded"
  /\ UNCHANGED <<encInput, encResult, encBlob, encDecoded, platformVars,
                 encOnlyUnchanged>>

InitEncode ==
  /\ encPc = "input"
  /\ encInput \in EncoderBuffers
  /\ encResult = NoWav
  /\ encBlob = NotAudio
  /\ encDecoded = << >>
  /\ MapperIdle /\ TuneIdle /\ EditorIdle /\ ExtIdle
  /\ DspIdle /\ MetricsIdle /\ TcIdle /\ PlatformIdle
NextEncode ==
  \/ CallEncodeWAV \/ CallDecodeWAV \/ DecodeWAVOpens \/ DecodeWAVResolves
  \/ DecodeWAVRejects \/ DecodeWAVReturns
SpecEncode == InitEncode /\ [][NextEncode]_vars


\* ------------------------------------------------ autoTuneDSP called directly
\* intensities below, at, just above and beyond the ends of [0, 1] and of the
\* 0.1 gate, the slider positions 0.35 and 0.7 that are no doubles, and 0.57,
\* at which the floating-point product with the strength 50 falls below 28.5
IntensityInputs == {-50, 0, 10, 20, 35, 57, 70, 75, 100, 150}

CallAutoTuneDSP ==
  /\ tunePc = "idle"
  /\ \E file \in Files : \E intensity \in IntensityInputs : EnterAutoTune(file, intensity)
  /\ UNCHANGED <<platformVars, tuneOnlyUnchanged>>

InitTune == DspIdle /\ MetricsIdle /\ TcIdle /\ PlatformIdle /\ RestIdle
NextTune == CallAutoTuneDSP \/ TuneStep
SpecTune == InitTune /\ [][NextTune]_vars

\* ------------------------------------------------ the suggestions called directly
\* band energies in sixteenths: none, balanced, a dominant mid range, a
\* dominant low range, a mid range a little above a half, a low range of a half
BandChoices == {<<0, 0, 0>>, <<5, 6, 5>>, <<1, 14, 1>>, <<12, 3, 1>>, <<4, 9, 3>>, <<8, 4, 4>>}

\* features on both sides of every threshold of generateSuggestedSettings, with
\* the frequencies analyzeAudioFile leaves NaN for a file shorter than one
\* analysis window
FeatureChoices ==
  {[rmsLevel |-> LevelOf(rms), peakLevel |-> Fin(2 * rms),
    dynamicRange |-> IF rms = 0 THEN ZeroDecibels ELSE Decibels("ratio", 2 * rms, LevelOf(rms)),
    noiseFloor |-> LevelOf(nf), spectralCentroid |-> sc,
    spectralRolloff |-> Rat(4 * sc.num, sc.den),
    zeroCrossingRate |-> zcr, lowEnergyRatio |-> Rat(bands[1], 16),
    midEnergyRatio |-> Rat(bands[2], 16), highEnergyRatio |-> Rat(bands[3], 16),
    sibilanceEnergy |-> sib, transientDensity |-> td] :
     rms \in {0, Scale \div 8}, nf \in {0, 3 * (Scale \div 64)},
     sc \in {Rat(1000, 1), Rat(3000, 1), Rat(0, 0)}, zcr \in {Rat(0, 1), Rat(1, 4)},
     bands \in BandChoices, sib \in {Rat(0, 1), Rat(3, 16)}, td \in {Rat(0, 1), Rat(5, 8)}}

CallGenerateSuggestedSettings ==
  /\ sugPc = "input"
  /\ sugSuggestions' = generateSuggestedSettings(sugFeatures)
  /\ sugPc' = "done"
  /\ UNCHANGED <<sugFeatures, dspVars, metricVars, tcVars, platformVars, encVars, mapVars,
                 tuneVars, edVars, anVars, beVars>>

InitSuggest ==
  /\ sugPc = "input"
  /\ sugFeatures \in FeatureChoices
  /\ sugSuggestions = NoResult
  /\ EncodeIdle /\ MapperIdle /\ TuneIdle /\ EditorIdle /\ BackendIdle /\ AnalysisIdle
  /\ DspIdle /\ MetricsIdle /\ TcIdle /\ PlatformIdle
NextSuggest == CallGenerateSuggestedSettings
SpecSuggest == InitSuggest /\ [][NextSuggest]_vars


\* ------------------------------------------------ the threshold mapper called directly
\* the threshold ranges the stage builders pass: <<minThreshold, maxThreshold>>
ThresholdRanges ==
  {<<-85, -50>>, <<-65, -40>>, <<-55, -35>>, <<-30, -15>>, <<-25, -10>>, <<-20, -8>>,
   <<-50, -30>>, <<-40, -25>>}
MapperStrengths == {0, 25, 50, 75, 100}

\* the threshold a stage builder gets from the module its import resolves to
ImportedStrengthToThreshold(module, strength, minThreshold, maxThreshold) ==
  IF module = "dspTypes"
  THEN strengthToThreshold(strength, minThreshold, maxThreshold)
  ELSE strengthToThresholdPart002(strength, minThreshold, maxThreshold)

CallStrengthToThreshold ==
  /\ mapPc = "input"
  /\ mapResult' = ImportedStrengthToThreshold(mapModule, mapArgs[1], mapArgs[2], mapArgs[3])
  /\ mapPc' = "done"
  /\ UNCHANGED <<mapModule, mapArgs, encVars, tuneVars, edVars, extVars, dspVars,
                 metricVars, tcVars, platformVars>>

InitMapper ==
  /\ mapPc = "input"
  /\ mapModule \in DspTypesModules
  /\ \E strength \in MapperStrengths : \E range \in ThresholdRanges :
       mapArgs = <<strength, range[1], range[2]>>
  /\ mapResult = Rat(0, 1)
  /\ EncodeIdle /\ TuneIdle /\ EditorIdle /\ ExtIdle
  /\ DspIdle /\ MetricsIdle /\ TcIdle /\ PlatformIdle
NextMapper == CallStrengthToThreshold
SpecMapper == InitMapper /\ [][NextMapper]_vars


\* ------------------------------------------------ the editor component
\* the files a component is mounted on
EditorFiles == {NoFile, [decodable |-> TRUE, audio |-> DirectInput]}

\* lines 141-157: the settings handleAutoAnalyze copies from the suggestions
SettingsOf(suggestions) == [k \in DOMAIN InitialSettings |-> suggestions[k]]

\* lines 113-121: the URLs the cleanup of the diagnostics effect revokes
ReportUrls(shown) ==
  IF shown.kind = "report"
  THEN {shown.checkpoints[i].audioUrl : i \in 1..Len(shown.checkpoints)}
  ELSE {}

\* what a step of the editor that starts no operation leaves alone
edOnlyUnchanged == <<dspVars, metricVars, encVars, mapVars, extVars>>

\* the invocation of processAudioWithDSP is over
LeaveDSP ==
  /\ dspPc' = "idle"
  /\ dspCaller' = "none"
  /\ dspOptions' = DefaultOptions
  /\ dspInput' = << >>
  /\ progressStep' = 0
  /\ currentNode' = "none"
  /\ chains' = << >>
  /\ destinationInput' = "none"
  /\ sourceStarted' = FALSE
  /\ progressLog' = << >>
  /\ renderState' = "notStarted"
  /\ dspCause' = NoCause
  /\ dspResult' = NoResult

\* the invocation of handleProcess is over, and with it that of the pipeline
LeaveProcess ==
  /\ processSettings' = InitialSettings
  /\ processFile' = NoFile
  /\ LeaveDSP

\* the invocation of runTripleCheck is over
LeaveTripleCheck ==
  /\ tcPc' = "idle"
  /\ tcFile' = NoFile
  /\ tcSettings' = << >>
  /\ checkpoints' = << >>
  /\ decodedBuffer' = << >>
  /\ inputWav' = NoWav
  /\ earlyWav' = NoWav
  /\ finalWav' = NoWav
  /\ finalDecodedBuffer' = << >>
  /\ tcCause' = NoCause
  /\ tcResult' = NoResult

\* the invocation of autoTuneDSP is over
LeaveAutoTune ==
  /\ tunePc' = "idle"
  /\ tuneFile' = NoFile
  /\ tuneIntensity' = IntensityScale
  /\ tuneFeatures' = ZeroFeatures
  /\ tuneCause' = NoCause
  /\ tuneResult' = NoResult

\* lines 94-128, the effects of the first render: the URL of the original file is
\* created, and handleAutoAnalyze (lines 130-138) runs up to its await, since
\* the mode is 'auto' and no analysis has completed
EdMount ==
  /\ lifecycle = "new"
  /\ lifecycle' = "mounted"
  /\ originalAudioUrl' = nextUrl
  /\ liveUrls' = liveUrls \cup {nextUrl}
  /\ nextUrl' = nextUrl + 1
  /\ isAnalyzing' = TRUE
  /\ autoAnalyzePc' = "awaiting"
  /\ EnterAutoTune(originalFile, autoIntensity)
  /\ UNCHANGED <<edModeVars, originalFile, autoIntensity, analysisComplete, settings,
                 isRunningDiagnostics, diagnosticsReport, runDiagnosticsPc, report,
                 openContexts, tcVars, edOnlyUnchanged>>

\* lines 94-101, and FileUpload.tsx lines 93 and 517-522: the parent renders
\* the mounted component with another File.  The cleanup of the effect on
\* [originalFile] revokes the URL of the file that is replaced and the effect
\* creates the URL of the new one; the effect on [mode] does not run again.
\* The rest of the state is kept, and the operations in flight keep the file
\* they were started with.
EdNewFile(file) ==
  /\ lifecycle = "mounted"
  /\ nextUrl <= MaxUrls
  /\ originalFile' = file
  /\ originalAudioUrl' = nextUrl
  /\ liveUrls' = (liveUrls \ {originalAudioUrl}) \cup {nextUrl}
  /\ nextUrl' = nextUrl + 1
  /\ UNCHANGED <<edModeVars, lifecycle, autoIntensity, isAnalyzing, analysisComplete,
                 settings, isRunningDiagnostics, diagnosticsReport, autoAnalyzePc,
                 runDiagnosticsPc, report, openContexts, tcVars, tuneVars,
                 edOnlyUnchanged>>

\* lines 138-160 and 184-186: autoTuneDSP has returned; the state setters of a
\* component that is no longer mounted do nothing.  autoTuneDSP never rejects,
\* so the catch block of lines 161-183 is not entered.  The invocation of
\* autoTuneDSP is over.
EdAnalysisResolves ==
  /\ autoAnalyzePc = "awaiting"
  /\ tunePc = "returned"
  /\ autoAnalyzePc' = "idle"
  /\ IF lifecycle = "mounted"
     THEN /\ settings' = SettingsOf(tuneResult.suggestions)
          /\ analysisComplete' = TRUE
          /\ isAnalyzing' = FALSE
     ELSE UNCHANGED <<settings, analysisComplete, isAnalyzing>>
  /\ UNCHANGED <<edModeVars, lifecycle, originalFile, originalAudioUrl, autoIntensity,
                 isRunningDiagnostics, diagnosticsReport, runDiagnosticsPc, report,
                 platformVars, tcVars, edOnlyUnchanged>>
  /\ LeaveAutoTune

\* line 826 and lines 307-339: Run Triple Check is clicked while the button is
\* enabled; handleRunDiagnostics runs up to its await
EdRunDiagnostics ==
  /\ lifecycle = "mounted"
  /\ ~isAnalyzing
  /\ ~isRunningDiagnostics
  /\ ~isProcessing
  /\ nextUrl <= MaxUrls
  /\ openContexts <= MaxContexts
  /\ isRunningDiagnostics' = TRUE
  /\ runDiagnosticsPc' = "awaiting"
  /\ EnterTripleCheck(originalFile, SettingsOptions(settings))
  /\ UNCHANGED <<edModeVars, lifecycle, originalFile, originalAudioUrl, autoIntensity, isAnalyzing,
                 analysisComplete, settings, diagnosticsReport, autoAnalyzePc, report,
                 platformVars, tuneVars, edOnlyUnchanged>>

\* lines 340-341 and 349-351: runTripleCheck has returned its report; with the
\* new report rendered, the cleanup of the diagnostics effect (lines 113-121)
\* revokes the URLs of the report it replaces.  The state setters of a
\* component that is no longer mounted do nothing.  The invocations of
\* runTripleCheck and of the pipeline are over.
EdDiagnosticsResolves ==
  /\ runDiagnosticsPc = "awaiting"
  /\ tcPc = "returned"
  /\ runDiagnosticsPc' = "idle"
  /\ IF lifecycle = "mounted"
     THEN /\ diagnosticsReport' = tcResult
          /\ liveUrls' = liveUrls \ ReportUrls(diagnosticsReport)
          /\ isRunningDiagnostics' = FALSE
     ELSE UNCHANGED <<diagnosticsReport, liveUrls, isRunningDiagnostics>>
  /\ report' = tcResult
  /\ LeaveTripleCheck /\ LeaveDSP
  /\ UNCHANGED <<edModeVars, lifecycle, originalFile, originalAudioUrl, autoIntensity, isAnalyzing,
                 analysisComplete, settings, autoAnalyzePc, nextUrl, openContexts,
                 tuneVars, metricVars, encVars, mapVars, extVars>>

\* lines 343-351: runTripleCheck has rejected; the report on display stays
EdDiagnosticsRejects ==
  /\ runDiagnosticsPc = "awaiting"
  /\ tcPc = "thrown"
  /\ runDiagnosticsPc' = "idle"
  /\ IF lifecycle = "mounted"
     THEN isRunningDiagnostics' = FALSE
     ELSE UNCHANGED isRunningDiagnostics
  /\ LeaveTripleCheck /\ LeaveDSP
  /\ UNCHANGED <<edModeVars, lifecycle, originalFile, originalAudioUrl, autoIntensity, isAnalyzing,
                 analysisComplete, settings, diagnosticsReport, autoAnalyzePc, report,
                 platformVars, tuneVars, metricVars, encVars, mapVars, extVars>>

\* lines 98-100, 105-109 and 115-119: the component is unmounted; the cleanups
\* of its effects revoke the URL of the original file, the URL of the
\* processed audio and the URLs of the report on display.  Operations in
\* flight go on.
EdUnmount ==
  /\ lifecycle = "mounted"
  /\ lifecycle' = "unmounted"
  /\ liveUrls' = liveUrls \ ({originalAudioUrl, processedAudioUrl} \cup ReportUrls(diagnosticsReport))
  /\ UNCHANGED <<edModeVars, originalFile, originalAudioUrl, autoIntensity, isAnalyzing,
                 analysisComplete, settings, isRunningDiagnostics, diagnosticsReport,
                 autoAnalyzePc, runDiagnosticsPc, report, nextUrl, openContexts, tcVars,
                 tuneVars, edOnlyUnchanged>>

\* line 422 and lines 124-128: the other mode tab is chosen; the tabs are never
\* disabled.  The effect on [mode] starts handleAutoAnalyze (up to its await)
\* when the mode is 'auto' and no analysis is complete or running.
EdSetMode ==
  /\ lifecycle = "mounted"
  /\ openContexts <= MaxContexts
  /\ mode' = IF mode = "auto" THEN "manual" ELSE "auto"
  /\ IF mode' = "auto" /\ ~analysisComplete /\ ~isAnalyzing
     THEN /\ isAnalyzing' = TRUE
          /\ autoAnalyzePc' = "awaiting"
          /\ EnterAutoTune(originalFile, autoIntensity)
     ELSE UNCHANGED <<isAnalyzing, autoAnalyzePc, tuneVars>>
  /\ UNCHANGED <<lifecycle, originalFile, originalAudioUrl, autoIntensity, analysisComplete,
                 settings, isRunningDiagnostics, diagnosticsReport, runDiagnosticsPc, report,
                 isProcessing, processPc, processedAudioUrl, processSettings, processFile,
                 platformVars, tcVars, edOnlyUnchanged>>

\* the positions of the Enhancement Amount slider that are used here
EditorIntensities == {50, 75}

\* lines 441-448 and 189-196: the slider of the auto tab is moved while it is
\* enabled; a completed analysis is marked as not complete
EdIntensityChange ==
  /\ lifecycle = "mounted"
  /\ mode = "auto"
  /\ ~isAnalyzing /\ ~isProcessing
  /\ \E newIntensity \in EditorIntensities \ {autoIntensity} :
       autoIntensity' = newIntensity
  /\ analysisComplete' = IF analysisComplete /\ mode = "auto" THEN FALSE ELSE analysisComplete
  /\ UNCHANGED <<lifecycle, originalFile, originalAudioUrl, isAnalyzing, settings,
                 isRunningDiagnostics, diagnosticsReport, autoAnalyzePc, runDiagnosticsPc,
                 report, mode, isProcessing, processPc, processedAudioUrl, processSettings,
                 processFile,
                 platformVars, tcVars, tuneVars, edOnlyUnchanged>>

\* line 781 and lines 198-208: Process Audio is clicked while the button is
\* enabled; the handleProcess of this render, which reads the settings and
\* the file of this render, runs up to its first await
EdProcess ==
  /\ lifecycle = "mounted"
  /\ ~isProcessing /\ ~isAnalyzing /\ ~isRunningDiagnostics
  /\ nextUrl <= MaxControlUrls
  /\ openContexts <= MaxContexts
  /\ isProcessing' = TRUE
  /\ processSettings' = settings
  /\ processFile' = originalFile
  /\ processPc' = "readFile"
  /\ UNCHANGED <<lifecycle, originalFile, originalAudioUrl, autoIntensity, isAnalyzing,
                 analysisComplete, settings, isRunningDiagnostics, diagnosticsReport,
                 autoAnalyzePc, runDiagnosticsPc, report, mode, processedAudioUrl,
                 platformVars, tcVars, tuneVars, edOnlyUnchanged>>

\* lines 208-215: the file is read, an AudioContext is created and the decoding
\* starts
EdProcessReadFile ==
  /\ processPc = "readFile"
  /\ openContexts' = openContexts + 1
  /\ processPc' = "decoding"
  /\ UNCHANGED <<lifecycle, originalFile, originalAudioUrl, autoIntensity, isAnalyzing,
                 analysisComplete, settings, isRunningDiagnostics, diagnosticsReport,
                 autoAnalyzePc, runDiagnosticsPc, report, mode, isProcessing,
                 processedAudioUrl, processSettings, processFile, liveUrls, nextUrl,
                 tcVars, tuneVars, edOnlyUnchanged>>

\* lines 215-249: the file is decoded and the pipeline is called with the
\* settings of the render handleProcess was created in
EdProcessDecodeResolves ==
  /\ processPc = "decoding"
  /\ processFile.decodable
  /\ processPc' = "rendering"
  /\ EnterDSP("editor", processFile.audio, SettingsOptions(processSettings))
  /\ UNCHANGED <<lifecycle, originalFile, originalAudioUrl, autoIntensity, isAnalyzing,
                 analysisComplete, settings, isRunningDiagnostics, diagnosticsReport,
                 autoAnalyzePc, runDiagnosticsPc, report, mode, isProcessing,
                 processedAudioUrl, processSettings, processFile, platformVars,
                 tcVars, tuneVars, metricVars, encVars, mapVars, extVars>>

\* lines 251-286 and 291-302: the pipeline has returned; the buffer is encoded,
\* the URL of the blob is created and, the new URL rendered, the cleanup of
\* lines 104-110 revokes the one it replaces; the AudioContext is closed.  The
\* state setters of a component that is no longer mounted do nothing.
EdProcessResolves ==
  /\ processPc = "rendering"
  /\ dspPc = "returned"
  /\ processPc' = "idle"
  /\ nextUrl' = nextUrl + 1
  /\ IF lifecycle = "mounted"
     THEN /\ processedAudioUrl' = nextUrl
          /\ liveUrls' = (liveUrls \ {processedAudioUrl}) \cup {nextUrl}
          /\ isProcessing' = FALSE
     ELSE /\ liveUrls' = liveUrls \cup {nextUrl}
          /\ UNCHANGED <<processedAudioUrl, isProcessing>>
  /\ openContexts' = openContexts - 1
  /\ LeaveProcess
  /\ UNCHANGED <<lifecycle, originalFile, originalAudioUrl, autoIntensity, isAnalyzing,
                 analysisComplete, settings, isRunningDiagnostics, diagnosticsReport,
                 autoAnalyzePc, runDiagnosticsPc, report, mode, tcVars,
                 tuneVars, metricVars, encVars, mapVars, extVars>>

\* lines 287-302: the catch block reports the error (its message is shown and
\* read by no handler) and the finally block closes the AudioContext; no URL
\* is created
ProcessFails ==
  /\ processPc' = "idle"
  /\ IF lifecycle = "mounted"
     THEN isProcessing' = FALSE
     ELSE UNCHANGED isProcessing
  /\ openContexts' = openContexts - 1
  /\ LeaveProcess
  /\ UNCHANGED <<lifecycle, originalFile, originalAudioUrl, autoIntensity, isAnalyzing,
                 analysisComplete, settings, isRunningDiagnostics, diagnosticsReport,
                 autoAnalyzePc, runDiagnosticsPc, report, mode, processedAudioUrl,
                 liveUrls, nextUrl, tcVars, tuneVars, metricVars, encVars, mapVars,
                 extVars>>

\* lines 215 or 218 and 287-302: the decoding or the pipeline has rejected
EdProcessRejects ==
  \/ /\ processPc = "decoding" /\ ~processFile.decodable
     /\ ProcessFails
  \/ /\ processPc = "rendering" /\ dspPc = "thrown"
     /\ ProcessFails

\* lines 251 and 287-302: the pipeline has returned and encodeWAV throws, the
\* buffer of the file being refused by the platform
EdProcessEncodeFails ==
  /\ processPc = "rendering"
  /\ dspPc = "returned"
  /\ ProcessFails

\* lines 487-747, the controls of the manual tab: six switches, the strength
\* slider of each switch (min 0, max 100, step 5), rendered while the switch
\* is on, and three band sliders (min -12, max 12, step 1, in dB)
SwitchKeys ==
  {"noiseSuppression", "transientSuppression", "voiceIsolation", "spectralRepair",
   "dynamicEQ", "deClickDeChirp"}
BandKeys == {"lowBand", "midBand", "highBand"}
StrengthKey(switch) == switch \o "Strength"
ControlRendered(key) ==
  \/ key \in SwitchKeys \cup BandKeys
  \/ \E switch \in SwitchKeys : key = StrengthKey(switch) /\ settings[switch]
ControlValues(key) ==
  CASE key \in SwitchKeys -> BOOLEAN
    [] key \in BandKeys -> {dB * IntensityScale : dB \in (-12)..12}
    [] OTHER -> {5 * position : position \in 0..20}

\* lines 488-745: a control of the manual tab is given a new value by
\* setSettings({ ...settings, key: value }); the tab is shown in manual mode
\* and every control is disabled while the processing runs
EdManualControl(key, value) ==
  /\ lifecycle = "mounted"
  /\ mode = "manual"
  /\ ~isProcessing
  /\ ControlRendered(key)
  /\ value \in ControlValues(key)
  /\ settings[key] # value
  /\ settings' = [settings EXCEPT ![key] = value]
  /\ UNCHANGED <<edModeVars, lifecycle, originalFile, originalAudioUrl, autoIntensity,
                 isAnalyzing, analysisComplete, isRunningDiagnostics, diagnosticsReport,
                 autoAnalyzePc, runDiagnosticsPc, report, platformVars, tcVars, tuneVars,
                 edOnlyUnchanged>>

InitEditor ==
  /\ originalFile \in EditorFiles
  /\ lifecycle = "new"
  /\ originalAudioUrl = 0
  /\ autoIntensity = 75
  /\ isAnalyzing = FALSE
  /\ analysisComplete = FALSE
  /\ settings = InitialSettings
  /\ isRunningDiagnostics = FALSE
  /\ diagnosticsReport = NoResult
  /\ autoAnalyzePc = "idle"
  /\ runDiagnosticsPc = "idle"
  /\ report = NoResult
  /\ mode = "auto"
  /\ isProcessing = FALSE
  /\ processPc = "idle"
  /\ processedAudioUrl = 0
  /\ processSettings = InitialSettings
  /\ processFile = NoFile
  \* an optional value is the set of what it holds: null is {}
  /\ EncodeIdle /\ MapperIdle /\ TuneIdle /\ ExtIdle
  /\ DspIdle /\ MetricsIdle /\ TcIdle /\ PlatformIdle
NextEditor ==
  \/ EdMount \/ (\E file \in EditorFiles : EdNewFile(file)) \/ EdAnalysisResolves \/ EdRunDiagnostics \/ EdDiagnosticsResolves
  \/ EdDiagnosticsRejects \/ EdUnmount \/ TuneStep \/ TcStep \/ DspStep
SpecEditor == InitEditor /\ [][NextEditor]_vars

\* the settings of a component no control of which was touched: the initial
\* ones and those a completed analysis of one of the files leaves
UntouchedSettings ==
  {InitialSettings}
    \cup {SettingsOf(AutoTuneFallback(intensity).suggestions) : intensity \in EditorIntensities}
    \cup {SettingsOf(AutoTuneResult(ExtractFeatures([channels |-> file.audio,
                                                     sampleRate |-> rate]),
                                    intensity).suggestions) :
            file \in {f \in EditorFiles : f.decodable}, rate \in ContextRates,
            intensity \in EditorIntensities}
\* the positions of the controls that are explored here: both positions of a
\* switch, both ends of a slider
ManualChoices ==
  (SwitchKeys \X BOOLEAN)
    \cup ({StrengthKey(switch) : switch \in SwitchKeys} \X {0, 100})
    \cup (BandKeys \X {-12 * IntensityScale, 12 * IntensityScale})
\* the files and the positions explored with the other controls of the user:
\* a file is replaced by a different one while few object URLs have been
\* handed out; a control is moved while no triple
\* check runs, and one control at a time is away from its untouched
\* position.  handleProcess is started with every setting so reached.
ExploredFile(file) == file # originalFile /\ nextUrl <= MaxControlUrls
ExploredControl(key, value) ==
  /\ ~isRunningDiagnostics
  /\ \E base \in UntouchedSettings :
    \A k \in DOMAIN base \ {key} : settings[k] = base[k]

\* Run Triple Check is clicked while few object URLs have been handed out and
\* no control is away from its untouched position
EdRunFirstDiagnostics ==
  EdRunDiagnostics /\ nextUrl <= MaxControlUrls /\ settings \in UntouchedSettings

EdNextFile == \E file \in EditorFiles : ExploredFile(file) /\ EdNewFile(file)
EdNextControl ==
  \E choice \in ManualChoices :
    ExploredControl(choice[1], choice[2]) /\ EdManualControl(choice[1], choice[2])

\* the mounted component with the controls of the user
UserAction ==
  \/ EdMount \/ EdNextFile \/ EdIntensityChange \/ EdSetMode \/ EdNextControl
  \/ EdProcess \/ EdRunFirstDiagnostics
\* what the event loop runs without the user: the steps of the operations in
\* flight and the continuations of the handlers that await them
OperationStep ==
  \/ TuneStep \/ EdAnalysisResolves
  \/ EdProcessReadFile \/ EdProcessDecodeResolves \/ EdProcessResolves
  \/ EdProcessRejects \/ EdProcessEncodeFails
  \/ EdDiagnosticsResolves \/ EdDiagnosticsRejects \/ TcStep \/ DspStep
InitControls == InitEditor
NextControls == UserAction \/ OperationStep
SpecControls == InitControls /\ [][NextControls]_vars
\* a pending step of an operation is run eventually
SpecControlsFair == SpecControls /\ WF_vars(OperationStep)


\* ------------------------------------------------ the feature extraction called directly
\* lengths below, at and above one 10 ms window, one 100 ms window and one
\* analysis window of fftSize samples, and two analysis windows
AnalysisLengths ==
  (1..16) \cup {79, 80, 81, 160, 161, 240, 241, 440, 441, 442, 799, 800, 801, 1600,
                fftSize - 1, fftSize, fftSize + 1, 2 * fftSize}
AnalysisRates == {8000, 44100}

Silence(n) == [i \in 1..n |-> Fin(0)]
Tone(n) == [i \in 1..n |-> Fin(IF i % 2 = 1 THEN Scale \div 16 ELSE -(Scale \div 16))]
\* one sample of 2^-13 and silence after it
Impulse(n) == [i \in 1..n |-> Fin(IF i = 1 THEN Scale \div 8192 ELSE 0)]

\* decoded buffers whose first channel is silent or an impulse
AnalysisBuffers ==
  {[channels |-> ch, sampleRate |-> sr] :
     ch \in UNION {{<<Silence(n)>>, <<Silence(n), Silence(n)>>, <<Silence(n), Tone(n)>>,
                    <<Impulse(n)>>, <<Impulse(n), Silence(n)>>} :
                     n \in AnalysisLengths},
     sr \in AnalysisRates}

\* analyzeAudioFile lines 51-193, after decodeAudioData has resolved: the
\* features are computed and the context of line 48 is closed; the call waits
\* for the close
CallExtractFeatures ==
  /\ anPc = "input"
  /\ openContexts' = openContexts - 1
  /\ anPc' = "closing"
  /\ UNCHANGED <<anBuffer, anFeatures, liveUrls, nextUrl, dspVars, metricVars, tcVars,
                 encVars, mapVars, tuneVars, edVars, beVars, sugVars>>

\* lines 195-208: the close has resolved, the features are returned
ExtractFeaturesReturns ==
  /\ anPc = "closing"
  /\ anFeatures' = ExtractFeatures(anBuffer)
  /\ anPc' = "done"
  /\ UNCHANGED <<anBuffer, dspVars, metricVars, tcVars, platformVars, encVars, mapVars,
                 tuneVars, edVars, beVars, sugVars>>

\* the context of line 48 is open when decodeAudioData resolves
InitAnalysis ==
  /\ anPc = "input"
  /\ anBuffer \in AnalysisBuffers
  /\ anFeatures = NoResult
  /\ EncodeIdle /\ MapperIdle /\ TuneIdle /\ EditorIdle /\ BackendIdle /\ SuggestIdle
  /\ DspIdle /\ MetricsIdle /\ TcIdle
  /\ liveUrls = {}
  /\ nextUrl = 1
  /\ openContexts = 1
NextAnalysis == CallExtractFeatures \/ ExtractFeaturesReturns
SpecAnalysis == InitAnalysis /\ [][NextAnalysis]_vars

\* ------------------------------------------------ the canister called directly
Configs == [owner : Principals, active : BOOLEAN]

InitBackend ==
  /\ BackendIdle /\ AnalysisIdle /\ SuggestIdle
  /\ EncodeIdle /\ MapperIdle /\ TuneIdle /\ EditorIdle
  /\ DspIdle /\ MetricsIdle /\ TcIdle /\ PlatformIdle
\* the jobs that carry an update of the administrator; the updates explored
\* here are those of a job in the round it was started in, one job at a time:
\* a second job is updated once the first is deleted or replaced by an upload
UpdatedJobs ==
  {k \in DOMAIN processingJobs :
     processingJobs[k].status # "pending" \/ processingJobs[k].tripleCheckAnalysisResult # {}}
MayUpdate(jobId) ==
  /\ UpdatedJobs \subseteq {jobId}
  /\ jobId \in DOMAIN processingJobs => processingJobs[jobId].startTime = now

NextJobs ==
  \/ \E caller \in Principals, filename \in Filenames : uploadMediaFile(caller, filename)
  \/ \E caller \in Principals, jobId \in JobIds : getProcessingJob(caller, jobId)
  \/ \E caller \in Principals : getMyProcessingJobs(caller)
  \/ \E caller \in Principals, jobId \in JobIds : getTripleCheckAnalysis(caller, jobId)
  \/ \E caller \in Principals, jobId \in JobIds : deleteProcessingJob(caller, jobId)
  \/ \E caller \in Principals, jobId \in JobIds, analysisResult \in AnalysisResults :
       MayUpdate(jobId) /\ updateTripleCheckAnalysis(caller, jobId, analysisResult)
  \/ \E caller \in Principals, jobId \in JobIds, status \in StatusChoices :
       MayUpdate(jobId) /\ updateJobStatus(caller, jobId, status)
  \/ \E caller \in Principals, user \in Principals, role \in UserRole :
       assignCallerUserRole(caller, user, role)
  \/ NextRound
SpecJobs == InitBackend /\ [][NextJobs]_vars

InitConfigs == InitBackend
NextConfigs ==
  \/ \E caller \in Principals, configId \in ConfigIds :
       getVideoComparisonConfig(caller, configId)
  \/ \E caller \in Principals, configId \in ConfigIds, config \in Configs :
       saveVideoComparisonConfig(caller, configId, config)
  \/ \E caller \in Principals, user \in Principals, role \in UserRole :
       assignCallerUserRole(caller, user, role)
SpecConfigs == InitConfigs /\ [][NextConfigs]_vars

\* ------------------------------------------------ properties of the pipeline
\* the fixed chain order, stated independently of the actions above
ChainOrder == <<"buildPreNormalization", "buildNoiseSuppressionChain",
                "buildTransientSuppressionChain", "buildVoiceIsolationChain",
                "buildSpectralRepairChain", "buildDynamicEQChain",
                "buildDeClickDeChirpChain", "build3BandEQ", "buildFinalNormalization">>
OrderIndex(builder) == CHOOSE k \in 1..Len(ChainOrder) : ChainOrder[k] = builder
StageBuilder(k) == ChainOrder[k + 1]
Invoked(builder) == \E i \in 1..Len(chains) : chains[i].builder = builder
\* the graph was built to the end without a failure
GraphComplete == dspPc \in {"connect", "rendering", "returned"}
\* the position of the run in the straight-line code, 0 when it left it
PcRank == CASE dspPc = "noiseSuppression" -> 1 [] dspPc = "transientSuppression" -> 2
            [] dspPc = "voiceIsolation" -> 3 [] dspPc = "spectralRepair" -> 4
            [] dspPc = "dynamicEQ" -> 5 [] dspPc = "deClickDeChirp" -> 6
            [] dspPc = "tone" -> 7 [] dspPc = "finalNormalize" -> 8
            [] dspPc \in {"connect", "rendering", "returned"} -> 9
            [] OTHER -> 0
Reported(pct) == \E i \in 1..Len(progressLog) : progressLog[i][1] = pct

\* C1: with diagnosticsMode false, a stage's chain builder has been invoked only
\* if the stage's config has enabled = true and strength > 0, and once the run
\* is past a stage whose config has enabled = true and strength > 0 its builder
\* has been invoked (exactly once); enabled with strength 0 adds no chain.
C1_StageGating ==
  (dspPc # "idle" /\ ~Opt(dspOptions, "diagnosticsMode")) =>
    \A k \in 1..6 :
      LET config == Opt(dspOptions, StageNames[k])
          runs == config.enabled = TRUE /\ config.strength > 0
          calls == {i \in 1..Len(chains) : chains[i].builder = StageBuilder(k)}
      IN /\ (calls # {}) => runs
         /\ (PcRank > k /\ runs) => Cardinality(calls) = 1
         /\ (config.enabled /\ config.strength = 0) => calls = {}
         /\ \A i \in calls : chains[i].args = <<config.strength>>

C1_Witness ==
  /\ dspPc = "returned"
  /\ ~Opt(dspOptions, "diagnosticsMode")
  /\ "noiseSuppression" \in DOMAIN dspOptions
  /\ dspOptions.noiseSuppression = StageConfig(TRUE, 0)
  /\ dspOptions.transientSuppression = StageConfig(TRUE, 50)
  /\ dspOptions.voiceIsolation = StageConfig(FALSE, 50)
  /\ Invoked("buildTransientSuppressionChain")
  /\ ~Invoked("buildNoiseSuppressionChain")

\* C2: with diagnosticsMode true the only chains ever built are pre-normalization
\* and final-normalization, whatever the stage configs and band adjustments are,
\* and a completed graph is exactly those two chains.
C2_DiagnosticsOnlyNormalization ==
  (dspPc # "idle" /\ Opt(dspOptions, "diagnosticsMode")) =>
    /\ \A i \in 1..Len(chains) :
         chains[i].builder \in {"buildPreNormalization", "buildFinalNormalization"}
    /\ GraphComplete =>
         [i \in 1..Len(chains) |-> chains[i].builder] =
           <<"buildPreNormalization", "buildFinalNormalization">>

C2_Witness ==
  /\ dspPc = "returned"
  /\ "diagnosticsMode" \in DOMAIN dspOptions
  /\ dspOptions.diagnosticsMode
  /\ \A k \in 1..6 : dspOptions[StageNames[k]] = StageConfig(TRUE, 50)
  /\ dspOptions.lowBandAdjustment # 0
  /\ dspOptions.midBandAdjustment # 0
  /\ dspOptions.highBandAdjustment # 0
  /\ Len(chains) = 2

\* C3: the chains built are a subsequence of the fixed order that starts with
\* PreNormalize and, once the graph is complete, ends with FinalNormalize; each
\* chain takes the previous chain's output node (the source for the first) as
\* its input; rendering has started only if FinalNormalize is the node
\* connected to the destination.
C3_FixedOrder ==
  /\ \A i \in 1..Len(chains) : \A j \in 1..Len(chains) :
       i < j => OrderIndex(chains[i].builder) < OrderIndex(chains[j].builder)
  /\ Len(chains) > 0 => chains[1].builder = "buildPreNormalization"
  /\ \A i \in 1..Len(chains) :
       chains[i].input = IF i = 1 THEN "source" ELSE chains[i - 1].builder
  /\ GraphComplete => chains[Len(chains)].builder = "buildFinalNormalization"
  /\ renderState # "notStarted" =>
       /\ Len(chains) > 0
       /\ chains[Len(chains)].builder = "buildFinalNormalization"
       /\ destinationInput = "buildFinalNormalization"
       /\ sourceStarted

C3_Witness ==
  /\ dspPc = "returned"
  /\ Len(chains) = 9
  /\ destinationInput = "buildFinalNormalization"

\* C7: the percentages passed to onProgress in one run never decrease.
C7_ProgressMonotone ==
  \A i \in 1..Len(progressLog) : \A j \in 1..Len(progressLog) :
    i < j => progressLog[i][1] <= progressLog[j][1]

\* C8: 100% is reported at most once, only when startRendering has resolved,
\* and never in a run that failed while the graph was built or rendered.
C8_HundredOnlyAfterRender ==
  /\ Reported(100) => (renderState = "resolved" /\ dspPc = "returned")
  /\ Cardinality({i \in 1..Len(progressLog) : progressLog[i][1] = 100}) <= 1
  /\ (dspPc \in {"catch", "thrown"} \/ renderState = "rejected") => ~Reported(100)
  /\ dspPc = "returned" => progressLog[Len(progressLog)][1] = 100

C8_Witness ==
  /\ dspPc = "returned"
  /\ renderState = "resolved"
  /\ Reported(100)
  /\ Len(chains) = 9

\* C9: a failure while the graph is built or rendered ends the call with a
\* thrown error whose message is the prefix followed by the cause's message;
\* after a failure no buffer is returned, nothing more is built or rendered.
C9_FailureSurfaces ==
  /\ dspCause # NoCause =>
       /\ dspPc \in {"catch", "thrown"}
       /\ dspResult.kind # "buffer"
       /\ renderState \in {"notStarted", "rejected"}
  /\ dspPc = "thrown" =>
       /\ dspCause \in Causes
       /\ dspResult.kind = "error"
       /\ dspResult.message = "Failed to process audio: " \o dspCause.message
  /\ dspResult.kind = "buffer" => (dspPc = "returned" /\ renderState = "resolved")
  /\ renderState = "rejected" => dspPc \in {"catch", "thrown"}

C9_Witness ==
  /\ dspPc = "thrown"
  /\ Len(chains) = 3
  /\ renderState = "notStarted"
  /\ dspResult.message = "Failed to process audio: NotSupportedError"


\* ------------------------------------------------ properties of the diagnostics
StageOrder == <<"input", "early-pipeline", "final-output">>
Least(S) == CHOOSE i \in S : \A j \in S : i <= j

\* C4: the report's sourceStage is the stage of the first checkpoint, in the
\* order input, early-pipeline, final-output, that has abnormalities, and it is
\* 'none' exactly when no checkpoint has abnormalities.
C4_SourceStageIsFirstAbnormal ==
  tcPc = "returned" =>
    LET cps == tcResult.checkpoints
        abnormal == {i \in 1..Len(cps) : cps[i].abnormalities.hasAbnormalities}
    IN /\ (abnormal = {}) <=> (tcResult.sourceStage = "none")
       /\ abnormal # {} =>
            /\ tcResult.sourceStage = StageOrder[Least(abnormal)]
            /\ tcResult.sourceStage = cps[Least(abnormal)].stage

C4_Witness ==
  /\ tcPc = "returned"
  /\ ~tcResult.checkpoints[1].abnormalities.hasAbnormalities
  /\ tcResult.checkpoints[2].abnormalities.hasAbnormalities
  /\ tcResult.checkpoints[3].abnormalities.hasAbnormalities
  /\ tcResult.sourceStage = "early-pipeline"

\* C5: runTripleCheck ends either with a report of exactly three checkpoints in
\* the order input, early-pipeline, final-output, or with an error and nothing
\* else: once a decode, a render, an encode or the round-trip decode has failed
\* no report is produced, whatever checkpoints were already taken.
C5_ReportOrError ==
  /\ tcPc = "returned" =>
       /\ tcResult.kind = "report"
       /\ tcCause = NoCause
       /\ [i \in 1..Len(tcResult.checkpoints) |-> tcResult.checkpoints[i].stage] = StageOrder
  /\ tcPc = "thrown" =>
       /\ tcResult.kind = "error"
       /\ DOMAIN tcResult = {"kind", "message"}
       /\ tcResult.message = "Triple Check diagnostics failed: " \o tcCause.message
  /\ tcCause # NoCause => (tcPc \in {"catch", "thrown"} /\ tcResult.kind # "report")
  /\ tcResult.kind = "report" => tcPc = "returned"
  /\ (tcPc # "idle" /\ dspPc = "thrown") =>
       tcPc \in {"earlyPipeline", "finalPipeline", "catch", "thrown"}

C5_Witness ==
  /\ tcPc = "thrown"
  /\ Len(checkpoints) = 2
  /\ tcCause = DecodeFailure

\* C6: hasAbnormalities is true exactly when one of the five conditions holds
\* (nanCount > 0, infinityCount > 0, clippingPercentage > 5, |dcOffset| > 0.1,
\* peakLevel > 1.0), and the issues are one entry for each condition that
\* holds, in that order.
C6_AllIssuesListed ==
  metricsPc = "done" =>
    LET m == metricsIn
        pct == m.clippingPercentage
        dc == m.dcOffset
        pk == m.peakLevel
        conds == <<m.nanCount > 0,
                   m.infinityCount > 0,
                   pct.den # 0 /\ pct.num > 5 * pct.den,
                   dc.den # 0 /\ (10 * dc.num > dc.den \/ 10 * dc.num < -dc.den),
                   pk.den # 0 /\ pk.num > pk.den>>
        names == <<IssueNaN, IssueInfinity, IssueClipping, IssueDC, IssuePeak>>
        holding == {k \in 1..5 : conds[k]}
        issues == abnormalitiesOut.issues
    IN /\ abnormalitiesOut.hasAbnormalities <=> (holding # {})
       /\ Len(issues) = Cardinality(holding)
       /\ \A k \in 1..5 : (k \in holding) <=> (\E i \in 1..Len(issues) : issues[i] = names[k])
       /\ \A i \in 1..Len(issues) : \A j \in 1..Len(issues) :
            i < j => (CHOOSE k \in 1..5 : names[k] = issues[i]) <
                     (CHOOSE k \in 1..5 : names[k] = issues[j])

C6_Witness ==
  /\ metricsPc = "done"
  /\ metricsIn.nanCount > 0
  /\ metricsIn.infinityCount = 0
  /\ metricsIn.clippingPercentage = Rat(5, 1)
  /\ metricsIn.dcOffset = Rat(-1, 2)
  /\ metricsIn.peakLevel = Rat(Unit + 1, Unit)
  /\ abnormalitiesOut.issues = <<IssueNaN, IssueDC, IssuePeak>>

\* C10: when an encodeWAV call of a completed Triple Check run has reported
\* sanitizedSamples > 0 or clippedSamples > 0, the checkpoint recorded for that
\* encode reports abnormalities.
C10_EncoderCountersReported ==
  tcPc = "returned" =>
    LET wavs == <<inputWav, earlyWav, finalWav>> IN
    \A i \in 1..3 :
      (wavs[i].diagnostics.sanitizedSamples > 0 \/ wavs[i].diagnostics.clippedSamples > 0)
        => tcResult.checkpoints[i].abnormalities.hasAbnormalities

\* ------------------------------------------------ properties of the encoder
\* the positions of a buffer: <<channel, frame>>
Positions(buffer) == (1..numberOfChannels(buffer)) \X (1..bufferLength(buffer))
SampleAt(buffer, pos) == buffer[pos[1]][pos[2]]
\* every sample is finite and in [-1, 1]
AllInRange(buffer) ==
  \A pos \in Positions(buffer) :
    SampleAt(buffer, pos).kind = "fin" /\ Abs(SampleAt(buffer, pos).v) <= Scale

\* C11: sanitizedSamples is the number of NaN or +/-Infinity samples,
\* clippedSamples the number of finite samples outside [-1, 1], totalSamples is
\* frames x channels; a buffer of finite samples in [-1, 1] gives 0 and 0; no
\* sample is counted by both counters.
C11_EncoderCounters ==
  encPc \in {"encoded", "decoded"} =>
    LET d == encResult.diagnostics
        nonFinite == {pos \in Positions(encInput) : SampleAt(encInput, pos).kind # "fin"}
        outside == {pos \in Positions(encInput) :
                      /\ SampleAt(encInput, pos).kind = "fin"
                      /\ Abs(SampleAt(encInput, pos).v) > Scale}
    IN /\ d.sanitizedSamples = Cardinality(nonFinite)
       /\ d.clippedSamples = Cardinality(outside)
       /\ d.totalSamples = bufferLength(encInput) * numberOfChannels(encInput)
       /\ AllInRange(encInput) => (d.sanitizedSamples = 0 /\ d.clippedSamples = 0)
       /\ d.sanitizedSamples + d.clippedSamples <= d.totalSamples
       /\ Len(encResult.blob.data) = d.totalSamples

C11_Witness ==
  /\ encPc = "encoded"
  /\ numberOfChannels(encInput) = 2
  /\ encInput[1][1] = PosInf
  /\ encInput[2][1] = Fin(Scale + 1)
  /\ encResult.diagnostics.sanitizedSamples = 1
  /\ encResult.diagnostics.clippedSamples = 1

ConstantOne(buffer) == \A pos \in Positions(buffer) : SampleAt(buffer, pos) = Fin(Scale)

\* C12 as stated: for a buffer of constant value 1.0, encodeWAV yields
\* clippedSamples = totalSamples and sanitizedSamples = 0.
C12_ConstantOneAllClipped ==
  (encPc \in {"encoded", "decoded"} /\ ConstantOne(encInput)) =>
    /\ encResult.diagnostics.clippedSamples = encResult.diagnostics.totalSamples
    /\ encResult.diagnostics.sanitizedSamples = 0

\* C12 as amended: for a buffer of constant value 1.0, encodeWAV yields
\* clippedSamples = 0 and sanitizedSamples = 0 (1.0 is not outside [-1, 1]) and
\* every sample is written as the code 32767; it is computeAudioMetrics, with
\* its threshold |sample| >= 0.99, whose clippingCount is the number of samples.
C12_ConstantOneNotClipped ==
  (encPc \in {"encoded", "decoded"} /\ ConstantOne(encInput)) =>
    /\ encResult.diagnostics.clippedSamples = 0
    /\ encResult.diagnostics.sanitizedSamples = 0
    /\ \A i \in 1..Len(encResult.blob.data) : encResult.blob.data[i] = 32767
    /\ computeAudioMetrics(encInput).clippingCount = encResult.diagnostics.totalSamples

C12_Witness ==
  /\ encPc = "encoded"
  /\ numberOfChannels(encInput) = 2
  /\ ConstantOne(encInput)
  /\ encResult.diagnostics.totalSamples >= 2

\* |sqrt(sx / n) - sqrt(sy / n)| <= p / q, for sums of squares sx and sy:
\* with l = q^2 (sx + sy) - p^2 n, either l <= 0 or l^2 <= 4 q^4 sx sy
RmsWithin(sx, sy, n, p, q) ==
  LET a == NatMul(NatOfInt(q * q), NatAdd(sx, sy))
      b == NatOfInt(p * p * n)
  IN \/ NatLeq(a, b)
     \/ LET l == NatSub(a, b)
        IN NatLeq(NatMul(l, l),
                  NatMul(NatOfInt(4 * q * q * q * q), NatMul(sx, sy)))

\* the peak and the RMS of the round trip of encInput are within p / q sample
\* steps (1 / Scale each) of the original's
RoundTripWithin(p, q) ==
  LET before == computeAudioMetrics(encInput)
      after == computeAudioMetrics(encDecoded)
  IN /\ q * Abs(before.peakLevel.num - after.peakLevel.num) <= p
     /\ RmsWithin(NatOfBig(before.rmsLevel.sumSquares), NatOfBig(after.rmsLevel.sumSquares),
                  before.rmsLevel.totalSamples, p, q)

\* C13 as stated: for a buffer of finite samples in [-1, 1], the peak level and
\* the RMS level of decodeWAV(encodeWAV(buffer)) each differ from the original's
\* by at most 1/32768.
C13_RoundTripWithinOneStep ==
  (encPc = "decoded" /\ AllInRange(encInput)) => RoundTripWithin(SubSteps, 1)

\* C13 as amended: for a buffer of finite samples in [-1, 1], the peak level and
\* the RMS level of decodeWAV(encodeWAV(buffer)) each differ from the original's
\* by at most 1.5/32768 (scaling a non-negative sample by 32767 moves it by up
\* to its own value in steps of the code, rounding by up to another half), and
\* the decoded buffer has the shape of the original and no sample outside
\* [-1, 1].
C13_RoundTripWithinOneAndAHalfSteps ==
  (encPc = "decoded" /\ AllInRange(encInput)) =>
    /\ RoundTripWithin(3 * SubSteps, 2)
    /\ numberOfChannels(encDecoded) = numberOfChannels(encInput)
    /\ bufferLength(encDecoded) = bufferLength(encInput)
    /\ AllInRange(encDecoded)

C13_Witness ==
  /\ encPc = "decoded"
  /\ AllInRange(encInput)
  /\ numberOfChannels(encInput) = 2
  /\ encInput[1][1] = Fin((Unit - 1) * SubSteps + 1)
  /\ encInput[2][1] = Fin(-(Scale \div 2) - 1)
  /\ ~RoundTripWithin(SubSteps, 1)

\* ------------------------------------------------ properties of the auto-tuning
CoreStages == {"noiseSuppression", "transientSuppression", "voiceIsolation", "spectralRepair"}
AllStages == {StageNames[k] : k \in 1..6}

\* C18: autoTuneDSP never ends with an error; when analyzeAudioFile has failed
\* it returns the safe defaults: the core stages enabled at strength 50 (the
\* other two stages disabled), the three band adjustments 0, confidence 0.
C18_FallbackNeverThrows ==
  /\ tunePc # "thrown"
  /\ tuneResult.kind # "error"
  /\ (tunePc = "returned" /\ tuneCause # NoCause) =>
       /\ tuneResult.kind = "result"
       /\ \A stage \in CoreStages :
            /\ tuneResult.dspOptions[stage].enabled
            /\ tuneResult.dspOptions[stage].strength = 50
            /\ tuneResult.suggestions[stage]
       /\ \A stage \in AllStages \ CoreStages : ~tuneResult.dspOptions[stage].enabled
       /\ tuneResult.dspOptions.lowBandAdjustment = 0
       /\ tuneResult.dspOptions.midBandAdjustment = 0
       /\ tuneResult.dspOptions.highBandAdjustment = 0
       /\ tuneResult.suggestions.confidence = 0
  /\ (tunePc \in {"catch", "returned"} /\ ~tuneFile.decodable) => tuneCause = AnalysisFailure

C18_Witness ==
  /\ tunePc = "returned"
  /\ ~tuneFile.decodable
  /\ tuneCause = AnalysisFailure
  /\ tuneResult.dspOptions.noiseSuppression = StageConfig(TRUE, 50)

\* C19: on every return path of autoTuneDSP the returned appliedIntensity lies
\* in [0, 1], whatever the input intensity.
C19_AppliedIntensityClamped ==
  tunePc = "returned" =>
    (tuneResult.appliedIntensity >= 0 /\ tuneResult.appliedIntensity <= IntensityScale)

\* C20 as stated: in the returned dspOptions a stage is enabled only if the
\* clamped intensity is greater than 0.1, and with intensity 0 every stage is
\* disabled, for every file.
C20_StagesGatedForEveryFile ==
  tunePc = "returned" =>
    /\ \A stage \in AllStages :
         tuneResult.dspOptions[stage].enabled => ClampIntensity(tuneIntensity) * 10 > IntensityScale
    /\ tuneIntensity = 0 => \A stage \in AllStages : ~tuneResult.dspOptions[stage].enabled

\* C20 as amended: when the analysis succeeds, a stage is enabled in the
\* returned dspOptions exactly if the features suggest it and the clamped
\* intensity is greater than 0.1, so that with intensity 0 every stage is
\* disabled whatever the features suggest; when analyzeAudioFile fails, the
\* fixed safe defaults are returned and the four core stages are enabled
\* whatever the intensity is.
C20_StagesGatedWhenAnalyzed ==
  tunePc = "returned" =>
    IF tuneCause = NoCause
    THEN /\ \A stage \in AllStages :
              tuneResult.dspOptions[stage].enabled <=>
                (tuneResult.suggestions[stage] /\ tuneIntensity > 10)
         /\ tuneIntensity <= 0 =>
              \A stage \in AllStages :
                /\ ~tuneResult.dspOptions[stage].enabled
                /\ tuneResult.dspOptions[stage].strength = 0
    ELSE \A stage \in AllStages : tuneResult.dspOptions[stage].enabled <=> stage \in CoreStages

\* a file whose features suggest the dynamic EQ, tuned with intensity 0
C20_Witness ==
  /\ tunePc = "returned"
  /\ tuneCause = NoCause
  /\ tuneIntensity = 0
  /\ generateSuggestedSettings(tuneFeatures).dynamicEQ
  /\ tuneResult.suggestions.dynamicEQ
  /\ \A stage \in AllStages : ~tuneResult.dspOptions[stage].enabled

\* ------------------------------------------------ properties of the strength mappers
\* C17: the strengthToThreshold the stage builders use is inverted: strength 0
\* gives maxThreshold, strength 100 gives minThreshold, and the result does not
\* increase with the strength.
C17_ThresholdInverted ==
  mapPc = "done" =>
    LET strength == mapArgs[1]
        minThreshold == mapArgs[2]
        maxThreshold == mapArgs[3]
    IN /\ strength = 0 => mapResult.num = maxThreshold * mapResult.den
       /\ strength = 100 => mapResult.num = minThreshold * mapResult.den
       /\ \A higher \in MapperStrengths :
            higher >= strength =>
              LET other == ImportedStrengthToThreshold(mapModule, higher, minThreshold,
                                                       maxThreshold)
              IN other.num * mapResult.den <= mapResult.num * other.den

\* ------------------------------------------------ properties of the resources
\* C14: when runTripleCheck ends with an error, every checkpoint URL it created
\* before the failure has been revoked.
C14_UrlsRevokedOnFailure ==
  tcPc = "thrown" =>
    \A i \in 1..Len(checkpoints) : checkpoints[i].audioUrl \notin liveUrls

\* C15: an AudioContext opened for decoding is closed on every exit path of the
\* operation that opened it: once runTripleCheck (with its decodeWAV) and
\* analyzeAudioFile have ended, by a return or by an error, no AudioContext is
\* left open.
C15_ContextsClosedOnEveryExit ==
  (/\ tcPc \in {"idle", "returned", "thrown"}
   /\ tunePc \in {"idle", "returned", "thrown"}) => openContexts = 0

\* ------------------------------------------------ properties of the editor's reports
\* the checkpoint URLs of the runs that have returned a report: those of the
\* report on display, of the report the handler received last and of the
\* report runTripleCheck has just returned
SuccessfulRunUrls ==
  ReportUrls(diagnosticsReport) \cup ReportUrls(report)
    \cup (IF tcPc = "returned" THEN ReportUrls(tcResult) ELSE {})

\* C16: at most three checkpoint URLs of successful Triple Check runs are live
\* at any time, and once the component is unmounted no checkpoint URL of a
\* successful run is live.
C16_ReportUrlsRevoked ==
  /\ Cardinality(liveUrls \cap SuccessfulRunUrls) <= 3
  /\ lifecycle = "unmounted" => liveUrls \cap SuccessfulRunUrls = {}

\* ------------------------------------------------ properties of the suggestions
\* C21: in the suggestions autoTuneDSP returns, each stage's enabled flag is the
\* feature-driven flag AND (clamped intensity > 0.1), and so equals the
\* enabled flag of the returned dspOptions.
C21_SuggestionsGated ==
  (tunePc = "returned" /\ tuneCause = NoCause) =>
    \A stage \in AllStages :
      /\ tuneResult.suggestions[stage] =
           (generateSuggestedSettings(tuneFeatures)[stage]
              /\ ClampIntensity(tuneIntensity) * 10 > IntensityScale)
      /\ tuneResult.suggestions[stage] = tuneResult.dspOptions[stage].enabled

\* ------------------------------------------------ properties of the feature extraction
AllSilent(audioBuffer) ==
  \A c \in 1..Len(audioBuffer.channels) : \A i \in 1..Len(audioBuffer.channels[c]) :
    audioBuffer.channels[c][i] = Fin(0)

IsNumber(x) == x.den # 0
LevelIsZero(level) == level.kind = "fin" /\ level.sumSquares = SquareOf(0)

\* C22: for an all-zero decoded buffer of any length, the features have
\* rmsLevel = 0, peakLevel = 0, dynamicRange = 0 and no NaN in any field.
C22_SilentFeaturesDefined ==
  (anPc = "done" /\ AllSilent(anBuffer)) =>
    /\ LevelIsZero(anFeatures.rmsLevel)
    /\ anFeatures.peakLevel = Fin(0)
    /\ anFeatures.dynamicRange.kind = "zero"
    /\ anFeatures.noiseFloor.kind = "fin"
    /\ \A field \in {"spectralCentroid", "spectralRolloff", "zeroCrossingRate",
                     "lowEnergyRatio", "midEnergyRatio", "highEnergyRatio",
                     "sibilanceEnergy", "transientDensity"} :
         IsNumber(anFeatures[field])

\* the mono mix of a decoded buffer
MonoMix(audioBuffer) ==
  [channels |->
     << [i \in 1..Len(audioBuffer.channels[1]) |->
           Fin(SumOver([c \in 1..Len(audioBuffer.channels) |-> audioBuffer.channels[c][i].v],
                       1, Len(audioBuffer.channels)) \div Len(audioBuffer.channels))] >>,
   sampleRate |-> audioBuffer.sampleRate]

\* C23: the features are those of the mono mix of all the channels, so a
\* channel that is not silent shows in the peak level.
C23_FeaturesOfMonoMix ==
  anPc = "done" =>
    /\ anFeatures.peakLevel =
         Fin(MaxOf({Abs(MonoMix(anBuffer).channels[1][i].v) :
                      i \in 1..Len(anBuffer.channels[1])}))
    /\ ~AllSilent(anBuffer) => anFeatures.peakLevel # Fin(0)

\* ------------------------------------------------ properties of the mid band
\* C28: generateSuggestedSettings never returns a positive midBand; the
\* midBand it returns, whatever the features, is between -4 dB and 0 dB.
C28_MidBandNeverPositive ==
  sugPc = "done" =>
    /\ sugSuggestions.midBand <= 0
    /\ sugSuggestions.midBand >= -4 * IntensityScale
\* the suggestions for a mid range a little above a half with a low spectral
\* centroid: voice isolation is suggested and the mid band is cut by 1 dB
C28_Witness ==
  /\ sugPc = "done"
  /\ sugFeatures.midEnergyRatio = Rat(9, 16)
  /\ RatLt(sugFeatures.spectralCentroid, 2500, 1)
  /\ sugSuggestions.voiceIsolation
  /\ sugSuggestions.midBand = -1 * IntensityScale

\* ------------------------------------------------ properties of the final checkpoint
ListsIssue(checkpoint, issue) ==
  \E i \in 1..Len(checkpoint.abnormalities.issues) :
    checkpoint.abnormalities.issues[i] = issue

\* C25: the final-output checkpoint of runTripleCheck never lists the NaN
\* issue, the Infinity issue or the peak-above-1.0 issue, whatever the
\* pipeline returned: its metrics are those of the buffer decoded from the
\* output of encodeWAV.
C25_FinalCheckpointSanitized ==
  \A k \in 1..Len(checkpoints) :
    checkpoints[k].stage = "final-output" =>
      /\ ~ListsIssue(checkpoints[k], IssueNaN)
      /\ ~ListsIssue(checkpoints[k], IssueInfinity)
      /\ ~ListsIssue(checkpoints[k], IssuePeak)
      /\ checkpoints[k].metrics.nanCount = 0
      /\ checkpoints[k].metrics.infinityCount = 0
\* a run whose pipeline returned a NaN or infinite sample, which encodeWAV
\* had to sanitize
C25_Witness ==
  /\ tcPc = "returned"
  /\ Len(tcResult.checkpoints) = 3
  /\ tcResult.checkpoints[3].stage = "final-output"
  /\ finalWav.diagnostics.sanitizedSamples > 0

\* ------------------------------------------------ properties of the editor's operations
AnalysisInFlight == autoAnalyzePc = "awaiting"
ProcessingInFlight == processPc # "idle"
DiagnosticsInFlight == runDiagnosticsPc = "awaiting"

\* C26: at most one of the three long-running operations of the editor (the
\* automatic analysis, the processing, the Triple Check) is in flight at any
\* time, whatever the user does with the mode tabs, the enhancement amount,
\* Process Audio and Run Triple Check.
C26_OneOperationInFlight ==
  /\ ~(AnalysisInFlight /\ ProcessingInFlight)
  /\ ~(AnalysisInFlight /\ DiagnosticsInFlight)
  /\ ~(ProcessingInFlight /\ DiagnosticsInFlight)

\* the enhancement amount was changed after a completed analysis: the auto
\* tab is shown, no analysis is complete and none is running
ReanalysisDue ==
  /\ lifecycle = "mounted"
  /\ mode = "auto"
  /\ ~analysisComplete
  /\ ~isAnalyzing

\* C27: in auto mode, once the user has changed the enhancement amount after
\* a completed analysis, an auto-tune with the new intensity eventually runs,
\* without any further action of the user.
C27_ReanalysisEventuallyRuns ==
  ReanalysisDue ~> (AnalysisInFlight /\ tuneIntensity = autoIntensity)

\* ------------------------------------------------ properties of the canister
JobCalls ==
  {"getProcessingJob", "getMyProcessingJobs", "getTripleCheckAnalysis",
   "deleteProcessingJob"}

\* C24: a caller that is not an administrator never receives, from
\* getProcessingJob, getMyProcessingJobs or getTripleCheckAnalysis, a job (or
\* the analysis of a job) of another principal, and never removes one with
\* deleteProcessingJob: a call that names such a job traps and the job store
\* is as it was before; an administrator is answered for every job the store
\* holds.
C24_JobsOfOthersProtected ==
  beCall.op \in JobCalls =>
    LET caller == beCall.caller
        before == beCall.jobsBefore
        held == beCall.id \in DOMAIN before
    IN /\ ~isAdmin(caller) =>
            /\ beCall.op \in {"getProcessingJob", "getMyProcessingJobs"} =>
                 \A job \in beCall.reply : job.user = caller
            /\ (beCall.op = "getTripleCheckAnalysis" /\ beCall.reply # {}) =>
                 (held /\ before[beCall.id].user = caller
                    /\ beCall.reply = before[beCall.id].tripleCheckAnalysisResult)
            /\ \A k \in DOMAIN before :
                 before[k].user # caller =>
                   k \in DOMAIN processingJobs /\ processingJobs[k] = before[k]
            /\ (held /\ before[beCall.id].user # caller) =>
                 beCall.trapped /\ processingJobs = before
       /\ (isAdmin(caller) /\ held) =>
            /\ ~beCall.trapped
            /\ beCall.op = "getProcessingJob" => beCall.reply = {before[beCall.id]}
            /\ beCall.op = "getTripleCheckAnalysis" =>
                 beCall.reply = before[beCall.id].tripleCheckAnalysisResult
            /\ beCall.op = "deleteProcessingJob" => beCall.id \notin DOMAIN processingJobs
\* an authenticated user asked to delete the job of another user
C24_Witness ==
  /\ beCall.op = "deleteProcessingJob"
  /\ hasPermission(beCall.caller, "user") /\ ~isAdmin(beCall.caller)
  /\ beCall.id \in DOMAIN beCall.jobsBefore
  /\ beCall.jobsBefore[beCall.id].user # beCall.caller
  /\ beCall.trapped

\* C29: uploadMediaFile never replaces a job the store already holds: the
\* jobId it answers with was not a key of the store before the call, also
\* when two uploads of the same filename run in the same round.
C29_UploadKeepsJobs ==
  (beCall.op = "uploadMediaFile" /\ ~beCall.trapped) =>
    /\ \A jobId \in beCall.reply : jobId \notin DOMAIN beCall.jobsBefore
    /\ \A k \in DOMAIN beCall.jobsBefore :
         k \in DOMAIN processingJobs /\ processingJobs[k] = beCall.jobsBefore[k]

\* C30: a caller that is not an administrator cannot replace the video
\* comparison configuration that is stored under a configId and owned by
\* another principal: such a call of saveVideoComparisonConfig traps and the
\* configurations are as they were before.
C30_ConfigsOfOthersKept ==
  (/\ beCall.op = "saveVideoComparisonConfig"
   /\ ~isAdmin(beCall.caller)
   /\ beCall.id \in DOMAIN beCall.configsBefore
   /\ beCall.configsBefore[beCall.id].owner # beCall.caller) =>
    beCall.trapped /\ videoComparisonConfigs = beCall.configsBefore
====
